---- MODULE Spec2Model ----
(***************************************************************************)
(* Prefix-level KMS keys for S3: the Policy Resolver                       *)
(* (get_kms_key_info_for_s3_prefix), the Remediation Engine                *)
(* (fix_encryption_if_incorrect, log_action_into_ddb) and the stores they  *)
(* work on (the mapping table, the log table, the object store).           *)
(*                                                                         *)
(* Strings (prefixes, object keys) are sequences of bytes; a byte is a     *)
(* small natural number.  DynamoDB orders string sort keys by their bytes, *)
(* Python's str.startswith compares code points; on the bytes modelled     *)
(* here the two agree.                                                     *)
(***************************************************************************)
EXTENDS Integers, Sequences, FiniteSets, TLC

\* ------------------------------------------------------------------ bounds
\* Longest prefix / object key of the resolver specification.
MaxLen == 2
\* Most records the mapping table holds in the resolver specification.
MaxRecords == 2

\* The bytes strings are made of.
Chars == {1, 2}

\* All non-empty strings of at most n bytes (DynamoDB key attributes and S3
\* object keys are never empty).
StringsUpTo(n) == UNION {[1..k -> Chars] : k \in 1..n}

Prefixes == StringsUpTo(MaxLen)
ObjectNames == StringsUpTo(MaxLen)

\* Buckets of the resolver specification.
ResolverBuckets == {"b1", "b2"}

KeyIds == {"k1", "k2"}

\* The "no value" of Python (None), where a string is expected.
None == "None"

\* The None that get_kms_key_info_for_s3_prefix returns when no record matches.
NoKeyInfo == [none |-> TRUE]

VARIABLES
    mapping,      \* the mapping table: (bucket_name, prefix) -> item
    resolved,     \* the last call of get_kms_key_info_for_s3_prefix and its result
    versioned,    \* whether the bucket of the remediation specification is versioned
    objects,      \* the object store at (Bucket, ObjectKey): version id -> object
    created,      \* how many objects (versions) uploads and copies have created
    uploads,      \* how many of them were uploads
    log,          \* the log table: (s3_object_path, current_timestamp_utc) -> item
    now,          \* the latest timestamp any handler has read from its clock
    deliveries,   \* how many notifications the queue has delivered
    processed,    \* the notifications an invocation has processed to its end, the
                  \* object not having been uploaded again since it began
    hs,           \* each handler's position in fix_encryption_if_incorrect and its locals
    notifications, \* the object-creation notifications S3 has sent to the queue
    batch,        \* one invocation of lambda_handler: its event, its position, its result
    queue,        \* the objects queue, its dead-letter queue and the object they are about
    recon,        \* the custom resource: its lifecycle event, its position, its clock
    waiting       \* a second invocation of the custom resource, while the first takes steps

vars ==
    <<mapping, resolved, versioned, objects, created, uploads, log, now, deliveries, processed, hs,
      notifications, batch, queue, recon, waiting>>

\* The variables of lambda_handler's batch, of the queues and of the custom
\* resource, and their values where these take no part.
otherVars == <<batch, queue, recon, waiting>>
NoBatch == <<>>
NoQueue == <<>>
NoRecon == <<>>

remediationVars ==
    <<versioned, objects, created, uploads, log, now, deliveries, processed, hs, notifications>>

\* ------------------------------------------------------- the mapping table
\* An item of the mapping table without its key attributes.
MappingItem(k, d, its, uts) ==
    [kms_key_arn |-> k, dual_layer_encryption |-> d, insert_ts |-> its, last_update_ts |-> uts]

\* Byte-wise lexicographic order on strings, the order of a DynamoDB string
\* sort key: a <= b.
RECURSIVE LexLeq(_, _)
LexLeq(a, b) ==
    IF a = <<>> THEN TRUE
    ELSE IF b = <<>> THEN FALSE
    ELSE IF Head(a) < Head(b) THEN TRUE
    ELSE IF Head(a) > Head(b) THEN FALSE
    ELSE LexLeq(Tail(a), Tail(b))

\* str.startswith
StartsWith(s, p) == Len(p) <= Len(s) /\ SubSeq(s, 1, Len(p)) = p

\* The sort keys of a set, in descending order (ScanIndexForward = False).
RECURSIVE Descending(_)
Descending(ps) ==
    IF ps = {} THEN <<>>
    ELSE LET top == CHOOSE p \in ps : \A q \in ps : LexLeq(q, p)
         IN  <<top>> \o Descending(ps \ {top})

\* KeyConditionExpression 'bucket_name = :bucket_name and prefix <= :object_name':
\* the sort keys the condition selects.
QueryCondition(table, bucket_name, object_name) ==
    {k[2] : k \in {x \in DOMAIN table : x[1] = bucket_name /\ LexLeq(x[2], object_name)}}

\* ddb.query(...)['Items']: the selected items, most specific prefix first.
QueryItems(table, bucket_name, object_name) ==
    Descending(QueryCondition(table, bucket_name, object_name))

\* FirstMatch without the startswith test: the first item of the query is
\* taken to be the match.
FirstItem(table, bucket_name, object_name, items) ==
    IF items = <<>> THEN NoKeyInfo
    ELSE [kms_key_arn |-> table[<<bucket_name, Head(items)>>].kms_key_arn,
          dual_layer_encryption |-> table[<<bucket_name, Head(items)>>].dual_layer_encryption]

\* The loop over result['Items']: the first item the object name starts with.
RECURSIVE FirstMatch(_, _, _, _)
FirstMatch(table, bucket_name, object_name, items) ==
    IF items = <<>> THEN NoKeyInfo
    ELSE IF StartsWith(object_name, Head(items))
         THEN [kms_key_arn |-> table[<<bucket_name, Head(items)>>].kms_key_arn,
               dual_layer_encryption |-> table[<<bucket_name, Head(items)>>].dual_layer_encryption]
         ELSE FirstMatch(table, bucket_name, object_name, Tail(items))

\* get_kms_key_info_for_s3_prefix
get_kms_key_info_for_s3_prefix(table, bucket_name, object_name) ==
    FirstMatch(table, bucket_name, object_name, QueryItems(table, bucket_name, object_name))

\* ------------------------------------------- the resolver specification
\* The policies of the records of the resolver specification.
ResolverPolicies == {MappingItem("k1", FALSE, 0, 0), MappingItem("k2", TRUE, 0, 0)}

\* The subsets of S of at most n elements.
RECURSIVE SubsetsUpTo(_, _)
SubsetsUpTo(S, n) ==
    IF n = 0 THEN {{}}
    ELSE LET smaller == SubsetsUpTo(S, n - 1)
         IN  smaller \cup {T \cup {x} : T \in smaller, x \in S}

\* Every content of the mapping table with at most MaxRecords records.
ResolverTables ==
    UNION {[D -> ResolverPolicies] : D \in SubsetsUpTo(ResolverBuckets \X Prefixes, MaxRecords)}

NoCall == [bucket_name |-> None, object_name |-> <<>>, result |-> NoKeyInfo]

InitResolver ==
    /\ mapping \in ResolverTables
    /\ resolved = NoCall
    /\ versioned = FALSE
    /\ objects = <<>>
    /\ created = 0
    /\ uploads = 0
    /\ log = <<>>
    /\ now = 0
    /\ deliveries = 0
    /\ processed = {}
    /\ hs = <<>>
    /\ notifications = <<>>
    /\ batch = NoBatch /\ queue = NoQueue /\ recon = NoRecon /\ waiting = NoRecon

\* One call of the resolver on the table as it is.
Resolve(b, o) ==
    /\ resolved = NoCall
    /\ resolved' = [bucket_name |-> b, object_name |-> o,
                    result |-> get_kms_key_info_for_s3_prefix(mapping, b, o)]
    /\ UNCHANGED <<mapping, remediationVars, otherVars>>

NextResolver == \E b \in ResolverBuckets, o \in ObjectNames : Resolve(b, o)

SpecResolver == InitResolver /\ [][NextResolver]_vars

\* ------------------------------------------------ the remediation engine
\* Notifications the queue delivers (at least once: duplicates included).
MaxDeliveries == 2

\* The concurrent invocations of the handler.
Handlers == {"h1", "h2"}

\* The bucket and the object key the notifications are about.
Bucket == "b1"
ObjectKey == <<1, 2>>

\* The encryption the first upload gives the object.
UploadKinds ==
    {[sse |-> "AES256", kms |-> None],
     [sse |-> "aws:kms", kms |-> "k1"],
     [sse |-> "aws:kms", kms |-> "k2"]}

\* The mapping tables of the remediation specification: records of Bucket
\* under a prefix of ObjectKey and under a prefix that sorts before ObjectKey
\* without being a prefix of it.
RemediationTables ==
    LET other == [k \in {<<Bucket, <<1, 1>>>>} |-> MappingItem("k2", FALSE, 0, 0)]
    IN  {other} \cup {[k \in {<<Bucket, <<1>>>>, <<Bucket, <<1, 1>>>>} |->
                          IF k = <<Bucket, <<1>>>> THEN p ELSE other[k]] : p \in ResolverPolicies}

\* No version id: None, and the key of the one object of a non-versioned bucket.
NoVersion == 0

\* S3ObjectPath that leaves the version id out.
S3ObjectPathOfKey(bucket_name, object_name, version_id) ==
    <<"s3://", bucket_name, "/", object_name>>

\* s3_object_path: 's3://{bucket}/{key}?versionId={version}' or 's3://{bucket}/{key}'
S3ObjectPath(bucket_name, object_name, version_id) ==
    IF version_id # NoVersion
    THEN <<"s3://", bucket_name, "/", object_name, "?versionId=", version_id>>
    ELSE <<"s3://", bucket_name, "/", object_name>>

\* new_sse_type, from dual_layer_encryption
NewSseType(dual_layer_encryption) ==
    IF dual_layer_encryption THEN "aws:kms:dsse" ELSE "aws:kms"

\* AlreadyCorrect that compares the encryption types only.
SameSseType(current_sse_type, current_kms_key_arn, new_sse_type, new_kms_key_arn) ==
    current_sse_type = new_sse_type

\* The test 'current encryption matches the encryption the object ought to have'.
AlreadyCorrect(current_sse_type, current_kms_key_arn, new_sse_type, new_kms_key_arn) ==
    current_sse_type = new_sse_type /\ current_kms_key_arn = new_kms_key_arn

\* action_reason of a rewrite
ActionReason(current_sse_type, current_kms_key_arn, new_sse_type, new_kms_key_arn) ==
    IF current_sse_type # new_sse_type
    THEN <<"Incorrect SSE type", current_sse_type, new_sse_type>>
    ELSE <<"Incorrect KMS key", current_kms_key_arn, new_kms_key_arn>>

ActionNone == "None"
ActionCopy == "Initiated copy with the right key"
ActionDelete == "Deleted old version with incorrect encryption"
ReasonNotConfigured == <<"No KMS key configured for this object's prefix">>
ReasonAlreadyCorrect == <<"Already using the correct key">>
ReasonNA == <<"N/A">>

\* The item log_action_into_ddb builds; new_version_id is an attribute of it
\* only when one is given.
LogItem(path, ts, cur_sse, cur_kms, new_sse, new_kms, action_taken, action_reason, new_version_id) ==
    LET item == [s3_object_path |-> path,
                 current_timestamp_utc |-> ts,
                 current_sse_type |-> cur_sse,
                 current_kms_key_arn |-> cur_kms,
                 new_sse_type |-> new_sse,
                 new_kms_key_arn |-> new_kms,
                 action_taken |-> action_taken,
                 action_reason |-> action_reason]
    IN  IF new_version_id # NoVersion
        THEN [a \in DOMAIN item \cup {"new_version_id"} |->
                 IF a = "new_version_id" THEN new_version_id ELSE item[a]]
        ELSE item

\* ddb.put_item on the log table, whose key is (s3_object_path,
\* current_timestamp_utc): an item with the same key is replaced.
PutItem(table, item) ==
    LET key == <<item.s3_object_path, item.current_timestamp_utc>>
    IN  [k \in DOMAIN table \cup {key} |-> IF k = key THEN item ELSE table[k]]

\* The version a get or a copy without VersionId addresses: the latest.
CurrentVersion(objs) ==
    IF versioned THEN CHOOSE v \in DOMAIN objs : \A w \in DOMAIN objs : w <= v
    ELSE NoVersion

\* The version id a new object gets.
NextVersion == IF versioned THEN created + 1 ELSE NoVersion

\* An object written over the key: a new version in a versioned bucket, the
\* replacement of the object otherwise.
PutObject(objs, obj) ==
    [v \in DOMAIN objs \cup {NextVersion} |-> IF v = NextVersion THEN obj ELSE objs[v]]

\* The notification S3 sends to the queue for an object created by an upload
\* or by a copy (OBJECT_CREATED covers both); the queue has not delivered it.
Notification(by) == [state |-> "visible", receives |-> 0, by |-> by]

\* No message: the invocation was not started for a message of the queue.
NoMsg == 0

\* A handler that has no notification.
IdleHandler ==
    [pc |-> "idle", version_id |-> NoVersion, msg |-> NoMsg,
     current_sse_type |-> None, current_kms_key_arn |-> None,
     new_sse_type |-> None, new_kms_key_arn |-> None,
     action_reason |-> <<>>, new_version_id |-> NoVersion,
     calls |-> <<>>, last_ts |-> 0, repeat |-> FALSE, fresh |-> FALSE, error |-> None]

InitRemediation ==
    /\ mapping \in RemediationTables
    /\ resolved = NoCall
    /\ versioned \in BOOLEAN
    /\ \E k \in UploadKinds :
          objects = [v \in {IF versioned THEN 1 ELSE NoVersion} |->
                        [content |-> 1, sse |-> k.sse, kms |-> k.kms]]
    /\ created = 1
    /\ uploads = 1
    /\ log = <<>>
    /\ now = 0
    /\ deliveries = 0
    /\ processed = {}
    /\ hs = [h \in Handlers |-> IdleHandler]
    /\ notifications = <<Notification("upload")>>
    /\ batch = NoBatch /\ queue = NoQueue /\ recon = NoRecon /\ waiting = NoRecon

\* The handler when its invocation has ended, at pc "done" or at pc "failed"
\* with the exception raised: the locals are gone; the notification and the
\* calls made remain on record.
Ended(h, pc, calls, error) ==
    [IdleHandler EXCEPT !.pc = pc, !.version_id = hs[h].version_id, !.calls = calls,
                        !.repeat = hs[h].repeat, !.error = error, !.msg = hs[h].msg]

\* A client uploads the object a second time, at any moment, with new content
\* and without naming a key (SSE-S3): a new version in a versioned bucket, the
\* replacement of the object otherwise.
Upload ==
    /\ uploads = 1
    /\ objects' = PutObject(objects, [content |-> uploads + 1, sse |-> "AES256", kms |-> None])
    /\ created' = created + 1
    /\ uploads' = uploads + 1
    /\ processed' = processed \ {NoVersion}
    /\ hs' = [h \in Handlers |->
                IF hs[h].version_id = NoVersion
                THEN [hs[h] EXCEPT !.repeat = FALSE, !.fresh = FALSE]
                ELSE hs[h]]
    /\ notifications' = Append(notifications, Notification("upload"))
    /\ UNCHANGED <<otherVars, mapping, resolved, versioned, log, now, deliveries>>

\* The version ids notifications carry: every version ever created, by an
\* upload or by a copy, and no version id in a non-versioned bucket.
Notified == IF versioned THEN 1..created ELSE {NoVersion}

\* The handlers that are not in an invocation.
Free == {h \in Handlers : hs[h].pc \in {"idle", "done", "failed"}}

\* lambda_handler calls fix_encryption_if_incorrect for a notification.  The
\* handlers are interchangeable: the invocation runs on h1 when h1 is free,
\* on h2 otherwise.  It starts after every timestamp read so far.
Deliver(h, v) ==
    /\ h \in Free
    /\ h = "h1" \/ "h1" \notin Free
    /\ deliveries < MaxDeliveries
    /\ v \in Notified
    /\ deliveries' = deliveries + 1
    /\ hs' = [hs EXCEPT ![h] = [IdleHandler EXCEPT !.pc = "get_object", !.version_id = v,
                                                    !.last_ts = now,
                                                    !.repeat = (v \in processed),
                                                    !.fresh = TRUE]]
    /\ UNCHANGED <<otherVars, notifications, mapping, resolved, versioned, objects, created, uploads, log, now, processed>>

\* The version s3.get_object reads.
GetTarget(h) ==
    IF hs[h].version_id # NoVersion THEN hs[h].version_id ELSE CurrentVersion(objects)

\* Branch that raises when no key is configured (the lines 166 to 169, which
\* the code has as a comment).
BranchRaise(info, cur_sse, cur_kms) ==
    IF info = NoKeyInfo THEN "failed"
    ELSE IF AlreadyCorrect(cur_sse, cur_kms, NewSseType(info.dual_layer_encryption), info.kms_key_arn)
         THEN "log_already_correct"
         ELSE "copy"

\* Branch that sends a rewrite to the deletion of the original at once,
\* without the copy of lines 67 to 69 made first.
BranchDeleteFirst(info, cur_sse, cur_kms) ==
    IF info = NoKeyInfo THEN "log_not_configured"
    ELSE IF AlreadyCorrect(cur_sse, cur_kms, NewSseType(info.dual_layer_encryption), info.kms_key_arn)
         THEN "log_already_correct"
         ELSE "delete_object"

\* The pc after the resolver's answer and the comparison.
Branch(info, cur_sse, cur_kms) ==
    IF info = NoKeyInfo THEN "log_not_configured"
    ELSE IF AlreadyCorrect(cur_sse, cur_kms, NewSseType(info.dual_layer_encryption), info.kms_key_arn)
         THEN "log_already_correct"
         ELSE "copy"

\* Lines 12 to 58: s3.get_object and the reading of the encryption headers
\* (the call raises when the version is gone), then
\* get_kms_key_info_for_s3_prefix and the comparison of the encryption found
\* with the encryption the mapping table asks for.  The mapping table does not
\* change while the handlers run, so the query is taken in the same step as
\* the get: what it returns does not depend on when it runs.
GetObject(h) ==
    /\ hs[h].pc = "get_object"
    /\ IF GetTarget(h) \in DOMAIN objects
       THEN LET info == get_kms_key_info_for_s3_prefix(mapping, Bucket, ObjectKey)
                cur_sse == objects[GetTarget(h)].sse
                cur_kms == objects[GetTarget(h)].kms
                seen == [hs[h] EXCEPT !.pc = Branch(info, cur_sse, cur_kms),
                                      !.current_sse_type = cur_sse,
                                      !.current_kms_key_arn = cur_kms]
            IN  IF info = NoKeyInfo
                THEN hs' = [hs EXCEPT ![h] = seen]
                ELSE hs' = [hs EXCEPT ![h] =
                              [seen EXCEPT
                                 !.new_kms_key_arn = info.kms_key_arn,
                                 !.new_sse_type = NewSseType(info.dual_layer_encryption),
                                 !.action_reason =
                                     IF seen.pc = "copy"
                                     THEN ActionReason(cur_sse, cur_kms,
                                                       NewSseType(info.dual_layer_encryption),
                                                       info.kms_key_arn)
                                     ELSE <<>>]]
       ELSE hs' = [hs EXCEPT ![h] = Ended(h, "failed", hs[h].calls, "NoSuchVersion")]
    /\ UNCHANGED <<otherVars, notifications, mapping, resolved, versioned, objects, created, uploads, log, now, deliveries,
                   processed>>

\* The timestamps a handler's clock can show at its next log_action_into_ddb:
\* later than its last one, and either the latest timestamp read so far (by
\* another handler) or a later one.
ClockReadings(h) == {ts \in {now, now + 1} : ts > hs[h].last_ts}

\* 'if not current_kms_key_arn: current_kms_key_arn = "None"'
LoggedKey(current_kms_key_arn) ==
    IF current_kms_key_arn = None THEN "None" ELSE current_kms_key_arn

\* The record of a put_item call: the item without its timestamp and without
\* the encryption found and asked for.
PutCall(item) ==
    [op |-> "put_item", s3_object_path |-> item.s3_object_path,
     action_taken |-> item.action_taken, action_reason |-> item.action_reason[1],
     new_version_id |-> IF "new_version_id" \in DOMAIN item THEN item.new_version_id
                        ELSE NoVersion]

\* One call of log_action_into_ddb by handler h, after which it is at pc next.
LogAction(h, ts, new_sse, new_kms, action_taken, action_reason, new_version_id, next) ==
    LET item == LogItem(S3ObjectPath(Bucket, ObjectKey, hs[h].version_id), ts,
                        hs[h].current_sse_type, LoggedKey(hs[h].current_kms_key_arn),
                        new_sse, new_kms, action_taken, action_reason, new_version_id)
    IN  /\ log' = PutItem(log, item)
        /\ now' = IF ts > now THEN ts ELSE now
        /\ hs' = [hs EXCEPT ![h] =
                     IF next = "done"
                     THEN Ended(h, "done", Append(hs[h].calls, PutCall(item)), None)
                     ELSE [hs[h] EXCEPT !.pc = next, !.last_ts = ts,
                                        !.calls = Append(@, PutCall(item))]]
        /\ processed' = IF next = "done" /\ hs[h].fresh
                        THEN processed \cup {hs[h].version_id}
                        ELSE processed
        /\ UNCHANGED <<otherVars, notifications, mapping, resolved, versioned, objects, created, uploads, deliveries>>

\* LogNotConfigured that returns without the call of log_action_into_ddb.
ReturnNotConfigured(h) ==
    /\ hs[h].pc = "log_not_configured"
    /\ hs' = [hs EXCEPT ![h] = Ended(h, "done", hs[h].calls, None)]
    /\ processed' = IF hs[h].fresh THEN processed \cup {hs[h].version_id} ELSE processed
    /\ UNCHANGED <<otherVars, notifications, mapping, resolved, versioned, objects, created, uploads, log, now, deliveries>>

\* line 34: the object's prefix has no key configured
LogNotConfigured(h) ==
    /\ hs[h].pc = "log_not_configured"
    /\ \E ts \in ClockReadings(h) :
          LogAction(h, ts, "None", "None", ActionNone, ReasonNotConfigured, NoVersion, "done")

\* line 50: the object already has the correct encryption
LogAlreadyCorrect(h) ==
    /\ hs[h].pc = "log_already_correct"
    /\ \E ts \in ClockReadings(h) :
          LogAction(h, ts, hs[h].new_sse_type, hs[h].new_kms_key_arn, ActionNone,
                    ReasonAlreadyCorrect, NoVersion, "done")

\* The source of the copy: the version of the notification, or the object as
\* it is when the notification has no version id.
CopySource(h) ==
    IF hs[h].version_id # NoVersion THEN hs[h].version_id ELSE CurrentVersion(objects)

\* CopiedObject of a copy called without SSEKMSKeyId and ServerSideEncryption,
\* given an object the bucket's default encryption applies to (SSE-S3).
CopiedByDefault(src, new_sse_type, new_kms_key_arn) ==
    [content |-> src.content, sse |-> "AES256", kms |-> None]

\* The object a copy writes: the content of the source under the new encryption.
CopiedObject(src, new_sse_type, new_kms_key_arn) ==
    [content |-> src.content, sse |-> new_sse_type, kms |-> new_kms_key_arn]

\* s3.copy_object (versioned) or s3.copy (non-versioned) onto the same bucket
\* and key; the call raises when the source version is gone.
Copy(h) ==
    /\ hs[h].pc = "copy"
    /\ IF CopySource(h) \in DOMAIN objects
       THEN /\ objects' = PutObject(objects, CopiedObject(objects[CopySource(h)],
                                             hs[h].new_sse_type, hs[h].new_kms_key_arn))
            /\ created' = created + 1
            /\ hs' = [hs EXCEPT
                        ![h].pc = "log_copy",
                        ![h].new_version_id =
                            IF hs[h].version_id # NoVersion THEN NextVersion ELSE NoVersion,
                        ![h].calls = Append(@, [op |-> "copy", source |-> CopySource(h),
                                                new_version |-> NextVersion])]
            /\ notifications' = Append(notifications, Notification("copy"))
       ELSE /\ hs' = [hs EXCEPT ![h] = Ended(h, "failed", hs[h].calls, "NoSuchVersion")]
            /\ UNCHANGED <<objects, created, notifications>>
    /\ UNCHANGED <<otherVars, mapping, resolved, versioned, uploads, log, now, deliveries, processed>>

\* LogCopy of a function that returns after the copy's entry on the versioned
\* path too (the lines 72 and 73 left out).
LogCopyAndReturn(h) ==
    /\ hs[h].pc = "log_copy"
    /\ \E ts \in ClockReadings(h) :
          LogAction(h, ts, hs[h].new_sse_type, hs[h].new_kms_key_arn, ActionCopy,
                    hs[h].action_reason, hs[h].new_version_id, "done")

\* lines 69 and 77: the copy is logged, with the new version id when the
\* notification had a version id
LogCopy(h) ==
    /\ hs[h].pc = "log_copy"
    /\ \E ts \in ClockReadings(h) :
          LogAction(h, ts, hs[h].new_sse_type, hs[h].new_kms_key_arn, ActionCopy,
                    hs[h].action_reason, hs[h].new_version_id,
                    IF hs[h].version_id # NoVersion THEN "delete_object" ELSE "done")

\* DeleteTarget that names the version the copy made.
DeleteTargetNew(h) == hs[h].new_version_id

\* DeleteTarget that names the version that is the latest when the delete is
\* called.
DeleteTargetLatest(h) == CurrentVersion(objects)

\* The VersionId given to s3.delete_object.
DeleteTarget(h) == hs[h].version_id

\* s3.delete_object with a VersionId: that version is removed for good; the
\* call succeeds when the version is already gone.
DeleteObject(h) ==
    /\ hs[h].pc = "delete_object"
    /\ objects' = [v \in DOMAIN objects \ {DeleteTarget(h)} |-> objects[v]]
    /\ hs' = [hs EXCEPT ![h].pc = "log_delete",
                        ![h].calls = Append(@, [op |-> "delete_object",
                                                version_id |-> DeleteTarget(h)])]
    /\ UNCHANGED <<otherVars, notifications, mapping, resolved, versioned, created, uploads, log, now, deliveries, processed>>

\* LogDelete that passes the new version id as the log of the copy does.
LogDeleteWithVersion(h) ==
    /\ hs[h].pc = "log_delete"
    /\ \E ts \in ClockReadings(h) :
          LogAction(h, ts, "N/A", "N/A", ActionDelete, ReasonNA, hs[h].new_version_id, "done")

\* line 73: the deletion of the old version is logged
LogDelete(h) ==
    /\ hs[h].pc = "log_delete"
    /\ \E ts \in ClockReadings(h) :
          LogAction(h, ts, "N/A", "N/A", ActionDelete, ReasonNA, NoVersion, "done")

\* The positions at which the handler is about to call S3 or DynamoDB.
CallPcs ==
    {"get_object", "log_not_configured", "log_already_correct", "copy",
     "log_copy", "delete_object", "log_delete"}

\* CallFails with the copy and the delete wrapped in a try whose except
\* clause passes: the handler goes on to the audit write of the call that
\* raised.
CallFailsSwallowed(h) ==
    /\ hs[h].pc \in CallPcs
    /\ hs' = [hs EXCEPT ![h] =
                 IF hs[h].pc = "copy" THEN [hs[h] EXCEPT !.pc = "log_copy"]
                 ELSE IF hs[h].pc = "delete_object" THEN [hs[h] EXCEPT !.pc = "log_delete"]
                 ELSE Ended(h, "failed", hs[h].calls, "call failed")]
    /\ UNCHANGED <<otherVars, notifications, mapping, resolved, versioned, objects, created, uploads, log, now, deliveries,
                   processed>>

\* The call the handler is about to make raises (throttling, a timeout, a
\* missing permission); the exception leaves fix_encryption_if_incorrect.
CallFails(h) ==
    /\ hs[h].pc \in CallPcs
    /\ hs' = [hs EXCEPT ![h] = Ended(h, "failed", hs[h].calls, "call failed")]
    /\ UNCHANGED <<otherVars, notifications, mapping, resolved, versioned, objects, created, uploads, log, now, deliveries,
                   processed>>

Next ==
    \/ Upload
    \/ \E h \in Handlers, v \in 0..(2 + MaxDeliveries) : Deliver(h, v)
    \/ \E h \in Handlers : GetObject(h)
    \/ \E h \in Handlers : LogNotConfigured(h)
    \/ \E h \in Handlers : LogAlreadyCorrect(h)
    \/ \E h \in Handlers : Copy(h)
    \/ \E h \in Handlers : LogCopy(h)
    \/ \E h \in Handlers : DeleteObject(h)
    \/ \E h \in Handlers : LogDelete(h)
    \/ \E h \in Handlers : CallFails(h)

Spec == InitRemediation /\ [][Next]_vars

\* --------------------------------------------------------------- claims
\* The prefixes of the records of bucket b that the object name o starts with.
MatchingPrefixes(b, o) ==
    {k[2] : k \in {x \in DOMAIN mapping : x[1] = b /\ StartsWith(o, x[2])}}

HasOp(h, op) == \E i \in 1..Len(hs[h].calls) : hs[h].calls[i].op = op

\* The put_item calls of the invocation of handler h, in order.
Puts(h) == SelectSeq(hs[h].calls, LAMBDA c : c.op = "put_item")

\* The s3_object_path of the notification handler h has.
PathOf(h) == S3ObjectPath(Bucket, ObjectKey, hs[h].version_id)

\* C2: re-processing a notification whose first processing completed, the
\* mapping table and the object unchanged, performs no copy and no delete,
\* writes one audit entry with action None and succeeds (it fails only when a
\* call fails on its own), for versioned and non-versioned objects.
C2_ReprocessingIsNoop ==
    \A h \in Handlers :
        hs[h].repeat =>
            /\ ~HasOp(h, "copy")
            /\ ~HasOp(h, "delete_object")
            /\ hs[h].pc = "failed" => hs[h].error = "call failed"
            /\ hs[h].pc = "done" =>
                  /\ Len(hs[h].calls) = 1
                  /\ hs[h].calls[1].op = "put_item"
                  /\ hs[h].calls[1].action_taken = ActionNone

Removed == DOMAIN objects \ DOMAIN objects'

\* C4: a version of the object is removed only by the delete_object of a
\* handler whose notification names that version V, after that handler's copy
\* of V made a new version; the version removed is V itself, never the version
\* the copy made, never another version, and never the object without a
\* version id.  The calls of such a handler are the copy of V, its log entry
\* and the deletion of V, in that order.
C4_DeletesExactlyOldVersion ==
    /\ [][\A v \in Removed :
            \E h \in Handlers :
                /\ hs[h].pc = "delete_object" /\ hs'[h].pc = "log_delete"
                /\ Removed = {hs[h].version_id}
                /\ v # NoVersion
                /\ v # hs[h].new_version_id]_vars
    /\ [](\A h \in Handlers :
            HasOp(h, "delete_object") =>
                /\ hs[h].version_id # NoVersion
                /\ Len(hs[h].calls) >= 3
                /\ hs[h].calls[1].op = "copy"
                /\ hs[h].calls[1].source = hs[h].version_id
                /\ hs[h].calls[1].new_version # hs[h].version_id
                /\ hs[h].calls[2].op = "put_item"
                /\ hs[h].calls[3] = [op |-> "delete_object", version_id |-> hs[h].version_id])

\* The deletion has removed the old version and the copy is in the bucket.
C4_Witness ==
    \E h \in Handlers :
        /\ hs[h].pc = "log_delete"
        /\ hs[h].version_id # NoVersion
        /\ hs[h].version_id \notin DOMAIN objects
        /\ hs[h].new_version_id \in DOMAIN objects
        /\ hs[h].calls[3].version_id = hs[h].version_id

\* The handlers whose invocation rewrote a version of the object and ended
\* without an exception.
RewroteVersion == {h \in Handlers : hs[h].pc = "done" /\ hs[h].version_id # NoVersion
                                    /\ HasOp(h, "copy")}

\* The version suffix of an s3_object_path, NoVersion when it has none.
VersionSuffix(path) == IF Len(path) = 6 THEN path[6] ELSE NoVersion

\* The path without its version suffix.
KeyPath(path) == SubSeq(path, 1, 4)

\* C5 as claimed: the two entries of a successful versioned rewrite, the copy's
\* and then the deletion's, have paths with the same bucket and key and
\* distinct version suffixes.
C5_DistinctVersionSuffixes ==
    \A h \in RewroteVersion :
        /\ Len(Puts(h)) = 2
        /\ Puts(h)[1].action_taken = ActionCopy
        /\ Puts(h)[2].action_taken = ActionDelete
        /\ KeyPath(Puts(h)[1].s3_object_path) = KeyPath(Puts(h)[2].s3_object_path)
        /\ VersionSuffix(Puts(h)[1].s3_object_path) # VersionSuffix(Puts(h)[2].s3_object_path)

\* C5 as amended: a successful versioned rewrite makes the calls copy,
\* put_item, delete_object, put_item; the first entry is the copy's and the
\* second the deletion's; both have the same s3_object_path, whose version
\* suffix is the version of the notification (the one deleted); the version
\* the copy made is the new_version_id of the first entry only.
C5_TwoEntriesSamePath ==
    \A h \in RewroteVersion :
        /\ Len(hs[h].calls) = 4
        /\ hs[h].calls[1].op = "copy" /\ hs[h].calls[3].op = "delete_object"
        /\ Len(Puts(h)) = 2
        /\ Puts(h)[1].action_taken = ActionCopy
        /\ Puts(h)[2].action_taken = ActionDelete
        /\ Puts(h)[1].s3_object_path = Puts(h)[2].s3_object_path
        /\ KeyPath(Puts(h)[1].s3_object_path) = <<"s3://", Bucket, "/", ObjectKey>>
        /\ VersionSuffix(Puts(h)[1].s3_object_path) = hs[h].version_id
        /\ Puts(h)[1].new_version_id = hs[h].calls[1].new_version
        /\ Puts(h)[1].new_version_id \notin {NoVersion, hs[h].version_id}
        /\ Puts(h)[2].new_version_id = NoVersion

\* A versioned rewrite has ended and the log table holds its two entries.
C5_Witness ==
    \E h \in RewroteVersion :
        /\ Len(Puts(h)) = 2
        /\ \E k1, k2 \in DOMAIN log :
              /\ k1[1] = PathOf(h) /\ k2[1] = PathOf(h)
              /\ log[k1].action_taken = ActionCopy
              /\ log[k1].new_version_id = Puts(h)[1].new_version_id
              /\ log[k2].action_taken = ActionDelete

\* The longest prefix among the records of the bucket that the key starts with.
LongestMatch == CHOOSE p \in MatchingPrefixes(Bucket, ObjectKey) :
                    \A q \in MatchingPrefixes(Bucket, ObjectKey) : Len(q) <= Len(p)

\* The descriptor derived from the resolved policy: the dual-layer type when
\* dual_layer_encryption is set, the standard managed-key type otherwise, with
\* the policy's key.
Desired ==
    [sse |-> IF mapping[<<Bucket, LongestMatch>>].dual_layer_encryption
             THEN "aws:kms:dsse" ELSE "aws:kms",
     kms |-> mapping[<<Bucket, LongestMatch>>].kms_key_arn]

\* The object a reader of the key gets: the latest version.
CurrentObject(objs) == objs[CurrentVersion(objs)]

\* Handler h makes its copy in this step.
Copies(h) == hs[h].pc = "copy" /\ hs'[h].pc = "log_copy"

\* C6: a handler goes on to the copy exactly when a policy is resolved and the
\* encryption type or the key it found differs from the desired descriptor; the
\* copy writes the same bucket and key with exactly the desired descriptor,
\* and after it the current object has the desired type and key and the
\* content the current object had before the copy.
C6_CopyKeepsContent ==
    /\ [](\A h \in Handlers :
            hs[h].pc \in {"log_not_configured", "log_already_correct", "copy"} =>
                (hs[h].pc = "copy" <=>
                    /\ MatchingPrefixes(Bucket, ObjectKey) # {}
                    /\ \/ hs[h].current_sse_type # Desired.sse
                       \/ hs[h].current_kms_key_arn # Desired.kms))
    /\ [][\A h \in Handlers :
            Copies(h) =>
                /\ CurrentObject(objects').sse = Desired.sse
                /\ CurrentObject(objects').kms = Desired.kms
                /\ CurrentObject(objects').content = CurrentObject(objects).content]_vars

\* The positions a handler is at when it has compared what it found.
DecidedPcs == {"log_not_configured", "log_already_correct", "copy"}

\* Handler h found the desired encryption type and the desired key.
FoundDesired(h) ==
    /\ MatchingPrefixes(Bucket, ObjectKey) # {}
    /\ hs[h].current_sse_type = Desired.sse
    /\ hs[h].current_kms_key_arn = Desired.kms

\* C7: a handler that found both the desired type and the desired key, and
\* only such a handler, goes to the log step of the compliant object; it has
\* made no call on the bucket; its next step writes one entry with action None
\* and the reason 'Already using the correct key', leaves the bucket as it is
\* and ends the invocation without an exception, unless that put_item itself
\* fails.
C7_CompliantIsLoggedOnly ==
    /\ [](\A h \in Handlers :
            /\ hs[h].pc \in DecidedPcs =>
                  (hs[h].pc = "log_already_correct" <=> FoundDesired(h))
            /\ hs[h].pc = "log_already_correct" => hs[h].calls = <<>>)
    /\ [][\A h \in Handlers :
            hs[h].pc = "log_already_correct" /\ hs'[h].pc # hs[h].pc =>
                /\ objects' = objects
                /\ \/ /\ hs'[h].pc = "failed"
                      /\ hs'[h].error = "call failed"
                      /\ log' = log
                   \/ /\ hs'[h].pc = "done"
                      /\ hs'[h].error = None
                      /\ Len(hs'[h].calls) = 1
                      /\ hs'[h].calls[1].op = "put_item"
                      /\ hs'[h].calls[1].action_taken = ActionNone
                      /\ hs'[h].calls[1].action_reason = ReasonAlreadyCorrect[1]
                      /\ \E k \in DOMAIN log' :
                            /\ k[1] = PathOf(h)
                            /\ log'[k].action_taken = ActionNone
                            /\ log'[k].action_reason = ReasonAlreadyCorrect
                            /\ log'[k].current_sse_type = Desired.sse
                            /\ log'[k].new_kms_key_arn = Desired.kms
                            /\ \A j \in DOMAIN log' \ {k} : j \in DOMAIN log /\ log'[j] = log[j]]_vars

\* An invocation that found the object compliant has ended with its one entry.
C7_Witness ==
    \E h \in Handlers :
        /\ hs[h].pc = "done"
        /\ Len(hs[h].calls) = 1
        /\ hs[h].calls[1].action_reason = ReasonAlreadyCorrect[1]
        /\ \E k \in DOMAIN log : k[1] = PathOf(h) /\ log[k].action_reason = ReasonAlreadyCorrect

\* C8: a handler goes to the log step of the unconfigured object exactly when
\* no record of the bucket has a prefix the key starts with; it has made no
\* call on the bucket; its next step writes one entry with action None and the
\* reason 'No KMS key configured for this object's prefix', leaves the bucket
\* as it is and ends the invocation without an exception, unless that put_item
\* itself fails.  No invocation ends in an exception that is not the failure of
\* a call.
C8_UnconfiguredIsLoggedOnly ==
    /\ [](\A h \in Handlers :
            /\ hs[h].pc \in DecidedPcs =>
                  (hs[h].pc = "log_not_configured" <=> MatchingPrefixes(Bucket, ObjectKey) = {})
            /\ hs[h].pc = "log_not_configured" => hs[h].calls = <<>>
            /\ hs[h].pc = "failed" => hs[h].error \in {"call failed", "NoSuchVersion"}
            /\ MatchingPrefixes(Bucket, ObjectKey) = {} =>
                  ~HasOp(h, "copy") /\ ~HasOp(h, "delete_object"))
    /\ [][\A h \in Handlers :
            hs[h].pc = "log_not_configured" /\ hs'[h].pc # hs[h].pc =>
                /\ objects' = objects
                /\ \/ /\ hs'[h].pc = "failed"
                      /\ hs'[h].error = "call failed"
                      /\ log' = log
                   \/ /\ hs'[h].pc = "done"
                      /\ hs'[h].error = None
                      /\ Len(hs'[h].calls) = 1
                      /\ hs'[h].calls[1].op = "put_item"
                      /\ hs'[h].calls[1].action_taken = ActionNone
                      /\ hs'[h].calls[1].action_reason = ReasonNotConfigured[1]
                      /\ \E k \in DOMAIN log' :
                            /\ k[1] = PathOf(h)
                            /\ log'[k].action_taken = ActionNone
                            /\ log'[k].action_reason = ReasonNotConfigured
                            /\ log'[k].new_kms_key_arn = "None"
                            /\ \A j \in DOMAIN log' \ {k} : j \in DOMAIN log /\ log'[j] = log[j]]_vars

\* An invocation for an object without a policy has ended with its one entry,
\* the object as it was uploaded.
C8_Witness ==
    \E h \in Handlers :
        /\ MatchingPrefixes(Bucket, ObjectKey) = {}
        /\ hs[h].pc = "done"
        /\ hs[h].error = None
        /\ Len(hs[h].calls) = 1
        /\ \E k \in DOMAIN log : k[1] = PathOf(h) /\ log[k].action_reason = ReasonNotConfigured
        /\ created = uploads

\* The positions at which a handler is about to call log_action_into_ddb.
LogPcs == {"log_not_configured", "log_already_correct", "log_copy", "log_delete"}

\* C9: a log step that does not fail makes exactly one put_item call and
\* writes exactly one item of the log table, every other item staying as it
\* is; and an item carries new_version_id exactly when it is the copy's entry
\* of an object with a version id, its value being a version other than the
\* one the path names.
C9_OneEntryPerLogStep ==
    /\ [](\A k \in DOMAIN log :
            /\ "new_version_id" \in DOMAIN log[k] <=>
                  /\ log[k].action_taken = ActionCopy
                  /\ VersionSuffix(log[k].s3_object_path) # NoVersion
            /\ "new_version_id" \in DOMAIN log[k] =>
                  log[k].new_version_id \notin {NoVersion, VersionSuffix(log[k].s3_object_path)})
    /\ [](\A h \in Handlers : \A i \in 1..Len(Puts(h)) :
            Puts(h)[i].new_version_id # NoVersion <=>
                /\ Puts(h)[i].action_taken = ActionCopy
                /\ hs[h].version_id # NoVersion)
    /\ [][\A h \in Handlers :
            hs[h].pc \in LogPcs /\ hs'[h].pc \notin {hs[h].pc, "failed"} =>
                /\ Len(hs'[h].calls) = Len(hs[h].calls) + 1
                /\ hs'[h].calls[Len(hs'[h].calls)].op = "put_item"
                /\ \E k \in DOMAIN log' :
                      /\ k[1] = PathOf(h)
                      /\ log'[k].action_taken = hs'[h].calls[Len(hs'[h].calls)].action_taken
                      /\ DOMAIN log' = DOMAIN log \cup {k}
                      /\ \A j \in DOMAIN log \ {k} : log'[j] = log[j]]_vars

\* The copy's entry of a versioned object, with the new version id, and the
\* deletion's entry, without one, are in the log table.
C9_Witness ==
    \E k1, k2 \in DOMAIN log :
        /\ log[k1].action_taken = ActionCopy
        /\ "new_version_id" \in DOMAIN log[k1]
        /\ log[k2].action_taken = ActionDelete
        /\ "new_version_id" \notin DOMAIN log[k2]

\* Handler h completes a call of log_action_into_ddb in this step.
Logs(h) == hs[h].pc \in LogPcs /\ hs'[h].pc \notin {hs[h].pc, "failed"}

\* C10: the log table is append-only: no step changes or removes an item that
\* is in it, and every completed call of log_action_into_ddb makes the table
\* one item larger, also when two handlers log the same s3_object_path at the
\* same timestamp.
C10_AppendOnly ==
    [][/\ \A k \in DOMAIN log : k \in DOMAIN log' /\ log'[k] = log[k]
       /\ \A h \in Handlers :
             Logs(h) => Cardinality(DOMAIN log') = Cardinality(DOMAIN log) + 1]_vars

\* ------------------------------------------------------- lambda_handler
\* The values of the other specifications' variables where they take no part.
NoRemediation ==
    /\ resolved = NoCall
    /\ versioned = FALSE /\ objects = <<>> /\ created = 0 /\ uploads = 0
    /\ log = <<>> /\ now = 0 /\ deliveries = 0 /\ processed = {} /\ hs = <<>>
    /\ notifications = <<>>

\* Most messages of one event (the event source gives up to batch_size).
MaxBatch == 2

\* A notification record of a message body: whether it has
\* rec['s3']['bucket']['name'] and rec['s3']['object']['key'], and whether
\* fix_encryption_if_incorrect raises for it.
RecKinds ==
    {[has_bucket |-> TRUE, has_key |-> TRUE, fix_raises |-> FALSE],
     [has_bucket |-> TRUE, has_key |-> TRUE, fix_raises |-> TRUE],
     [has_bucket |-> FALSE, has_key |-> TRUE, fix_raises |-> FALSE],
     [has_bucket |-> TRUE, has_key |-> FALSE, fix_raises |-> FALSE]}

\* The bodies of a message: one json.loads cannot parse, the test event S3
\* sends (no "Records"), and notifications of one or two records.
Bodies ==
    {[parses |-> FALSE, has_records |-> FALSE, Records |-> <<>>],
     [parses |-> TRUE, has_records |-> FALSE, Records |-> <<>>]}
    \cup {[parses |-> TRUE, has_records |-> TRUE, Records |-> rs] :
             rs \in UNION {[1..k -> RecKinds] : k \in {1, 2}}}

\* The events: messages with distinct messageIds.
Events ==
    UNION {{[m \in 1..n |-> [messageId |-> m, body |-> bs[m]]] : bs \in [1..n -> Bodies]} :
              n \in 1..MaxBatch}

NoResponse == [statusCode |-> 0]

InitBatch ==
    /\ mapping = <<>> /\ NoRemediation
    /\ queue = NoQueue /\ recon = NoRecon /\ waiting = NoRecon
    /\ \E ev \in Events :
          batch = [event |-> ev, i |-> 1, j |-> 0, batch_item_failures |-> <<>>,
                   pc |-> "loop", response |-> NoResponse, called |-> {}]

\* Respond that reports success whatever failed.
RespondOk(batch_item_failures) == [statusCode |-> 200]

\* lines 34 to 45: the response
Respond(batch_item_failures) ==
    IF Len(batch_item_failures) = 0
    THEN [statusCode |-> 200]
    ELSE [statusCode |-> 500, batchItemFailures |-> batch_item_failures]

\* The message the loop is at.
SqsMsg == batch.event[batch.i]

\* The loop without the test of line 13: s3_recs["Records"] raises KeyError
\* for a body without "Records".
ParseBodyStrict ==
    /\ batch.pc = "loop" /\ batch.i <= Len(batch.event) /\ batch.j = 0
    /\ batch' = IF ~SqsMsg.body.parses \/ ~SqsMsg.body.has_records
                THEN [batch EXCEPT !.pc = "raised"]
                ELSE [batch EXCEPT !.j = 1]
    /\ UNCHANGED <<mapping, resolved, remediationVars, queue, recon, waiting>>

\* lines 12, 13 and 29 to 31: json.loads of the body, outside any try; a body
\* without "Records" is ignored.
ParseBody ==
    /\ batch.pc = "loop" /\ batch.i <= Len(batch.event) /\ batch.j = 0
    /\ batch' = IF ~SqsMsg.body.parses THEN [batch EXCEPT !.pc = "raised"]
                ELSE IF ~SqsMsg.body.has_records THEN [batch EXCEPT !.i = @ + 1]
                ELSE [batch EXCEPT !.j = 1]
    /\ UNCHANGED <<mapping, resolved, remediationVars, queue, recon, waiting>>

\* The position after record j of message i.
AfterRecord(b) ==
    IF b.j < Len(b.event[b.i].body.Records) THEN [b EXCEPT !.j = @ + 1]
    ELSE [b EXCEPT !.i = @ + 1, !.j = 0]

\* lines 15 to 28: the bucket name and the key are read outside the try;
\* fix_encryption_if_incorrect is called inside it, and an exception appends
\* the messageId to batch_item_failures.
HandleRecord ==
    /\ batch.pc = "loop" /\ batch.i <= Len(batch.event) /\ batch.j >= 1
    /\ LET rec == SqsMsg.body.Records[batch.j]
           called == [batch EXCEPT !.called = @ \cup {<<batch.i, batch.j>>}]
       IN  batch' =
              IF ~rec.has_bucket \/ ~rec.has_key THEN [batch EXCEPT !.pc = "raised"]
              ELSE IF rec.fix_raises
                   THEN AfterRecord([called EXCEPT !.batch_item_failures =
                                        Append(@, [itemIdentifier |-> SqsMsg.messageId])])
                   ELSE AfterRecord(called)
    /\ UNCHANGED <<mapping, resolved, remediationVars, queue, recon, waiting>>

\* lines 33 to 45
Return ==
    /\ batch.pc = "loop" /\ batch.i > Len(batch.event)
    /\ batch' = [batch EXCEPT !.pc = "returned",
                              !.response = Respond(batch.batch_item_failures)]
    /\ UNCHANGED <<mapping, resolved, remediationVars, queue, recon, waiting>>

NextBatch == ParseBody \/ HandleRecord \/ Return

SpecBatch == InitBatch /\ [][NextBatch]_vars

\* The messages with a record for which fix_encryption_if_incorrect raises.
FailedMessages ==
    {batch.event[m].messageId : m \in {n \in DOMAIN batch.event :
        \E r \in DOMAIN batch.event[n].body.Records : batch.event[n].body.Records[r].fix_raises}}

\* A message lambda_handler cannot read: the body does not parse, or a record
\* lacks the bucket name or the key.
Unreadable(m) ==
    \/ ~batch.event[m].body.parses
    \/ \E r \in DOMAIN batch.event[m].body.Records :
          ~batch.event[m].body.Records[r].has_bucket \/ ~batch.event[m].body.Records[r].has_key

\* The records of message m, each by its position.
RecordsOf(m) == {<<m, r>> : r \in DOMAIN batch.event[m].body.Records}

\* The messageIds a response lists.
Listed(response) ==
    IF "batchItemFailures" \in DOMAIN response
    THEN {response.batchItemFailures[k].itemIdentifier : k \in DOMAIN response.batchItemFailures}
    ELSE {}

BatchEnded == batch.pc \in {"returned", "raised"}

\* C12 as claimed: whatever fails while one message is handled, every other
\* message of the batch, readable and without a failing record, has been
\* processed when the invocation ends (fix_encryption_if_incorrect was called
\* for each of its records) and is not redelivered: the invocation returned a
\* response, and the response does not list it.
C12_FailureIsPerMessage ==
    BatchEnded =>
        \A m \in DOMAIN batch.event :
            ~Unreadable(m) /\ batch.event[m].messageId \notin FailedMessages =>
                /\ RecordsOf(m) \subseteq batch.called
                /\ batch.pc = "returned"
                /\ batch.event[m].messageId \notin Listed(batch.response)

\* ------------------------------------- the objects queue and its redrive
\* Largest max_receive_count given in the context, and most failures of the
\* handler's calls before they all succeed.
MaxContext == 2
MaxFailures == 2

\* The context value when max_receive_count is not given.
NoContext == 0

\* MaxReceiveCount without the default.
MaxReceiveCountGiven(context) == context

\* lines 240 to 244 of core_stack.py
MaxReceiveCount(context) == IF context = NoContext THEN 1 ELSE context

\* The alarm on the dead-letter queue: the number of visible messages is
\* greater than or equal to the threshold, over one evaluation period.
AlarmThreshold == 1
AlarmCondition(visible) == visible >= AlarmThreshold

\* A message of the objects queue as S3 sends it.
NewMessage == [state |-> "visible", receives |-> 0]

\* One object of a non-versioned bucket under a configured prefix has been
\* written with another encryption; its notification is in the queue.
InitQueue ==
    /\ mapping = <<>> /\ NoRemediation
    /\ batch = NoBatch /\ recon = NoRecon /\ waiting = NoRecon
    /\ \E c \in {NoContext} \cup (1..MaxContext) :
          queue = [context |-> c, compliant |-> FALSE, uploads |-> 1, failures |-> 0,
                   msgs |-> <<NewMessage>>]

Messages == DOMAIN queue.msgs

\* The event source receives message m and invokes the handler with it.
Receive(m) ==
    /\ queue.msgs[m].state = "visible"
    /\ queue.msgs[m].receives < MaxReceiveCount(queue.context)
    /\ queue' = [queue EXCEPT !.msgs[m].state = "inflight", !.msgs[m].receives = @ + 1]
    /\ UNCHANGED <<mapping, resolved, remediationVars, batch, recon, waiting>>

\* DeadLetter that drops the message.
Drop(m) ==
    /\ queue.msgs[m].state = "visible"
    /\ queue.msgs[m].receives >= MaxReceiveCount(queue.context)
    /\ queue' = [queue EXCEPT !.msgs[m].state = "deleted"]
    /\ UNCHANGED <<mapping, resolved, remediationVars, batch, recon, waiting>>

\* The redrive policy: a message received max_receive_count times and visible
\* again is moved to the dead-letter queue instead of being received.
DeadLetter(m) ==
    /\ queue.msgs[m].state = "visible"
    /\ queue.msgs[m].receives >= MaxReceiveCount(queue.context)
    /\ queue' = [queue EXCEPT !.msgs[m].state = "dlq"]
    /\ UNCHANGED <<mapping, resolved, remediationVars, batch, recon, waiting>>

\* The queue after fix_encryption_if_incorrect got as far as its copy, or
\* found the object compliant: the object is compliant, and a copy it made is
\* an object creation that S3 notifies.
Remediated(q) ==
    IF q.compliant THEN q
    ELSE [q EXCEPT !.compliant = TRUE, !.msgs = Append(@, NewMessage)]

\* The handler processes message m without an exception: the message is not
\* reported in batchItemFailures and is deleted from the queue.
Succeed(m) ==
    /\ queue.msgs[m].state = "inflight"
    /\ queue' = [Remediated(queue) EXCEPT !.msgs[m].state = "deleted"]
    /\ UNCHANGED <<mapping, resolved, remediationVars, batch, recon, waiting>>

\* A call of the handler fails, before the copy or after it: the message is
\* reported in batchItemFailures and becomes visible again.
Fail(m) ==
    /\ queue.msgs[m].state = "inflight"
    /\ queue.failures < MaxFailures
    /\ \E copied \in BOOLEAN :
          queue' = [(IF copied THEN Remediated(queue) ELSE queue) EXCEPT
                       !.msgs[m].state = "visible", !.failures = @ + 1]
    /\ UNCHANGED <<mapping, resolved, remediationVars, batch, recon, waiting>>

\* A client writes the object once more, with another encryption.
UploadAgain ==
    /\ queue.uploads = 1
    /\ queue' = [queue EXCEPT !.uploads = 2, !.compliant = FALSE, !.msgs = Append(@, NewMessage)]
    /\ UNCHANGED <<mapping, resolved, remediationVars, batch, recon, waiting>>

NextQueue ==
    \/ \E m \in Messages : Receive(m)
    \/ \E m \in Messages : DeadLetter(m)
    \/ \E m \in Messages : Succeed(m)
    \/ \E m \in Messages : Fail(m)
    \/ UploadAgain

\* The event source keeps polling, the redrive policy is applied, and an
\* invocation ends; calls fail at most MaxFailures times.
SpecQueue ==
    /\ InitQueue /\ [][NextQueue]_vars
    /\ WF_vars(\E m \in Messages : Receive(m))
    /\ WF_vars(\E m \in Messages : DeadLetter(m))
    /\ WF_vars(\E m \in Messages : Succeed(m))

\* The messages in the dead-letter queue.
DeadLetters == {m \in Messages : queue.msgs[m].state = "dlq"}

\* C13 as claimed: with calls that fail at most MaxFailures times and the
\* mapping table unchanged, the object written under a configured prefix is,
\* from some time on, encrypted as its policy says.
C13_EventuallyEncrypted == <>[](queue.compliant)

\* The receive count the redrive policy is to apply: the one configured, 1
\* when none is.
ConfiguredReceives == IF queue.context = NoContext THEN 1 ELSE queue.context

\* C13 as amended: from some time on the object is encrypted as its policy
\* says or a message about it is in the dead-letter queue; it is encrypted
\* whenever the calls failed fewer times than max_receive_count.
C13_EncryptedOrDeadLettered ==
    <>[](/\ ~queue.compliant => DeadLetters # {}
         /\ queue.failures < ConfiguredReceives => queue.compliant)

\* A message failed once, was received again, and the object is encrypted.
C13_Witness ==
    /\ queue.compliant
    /\ queue.failures >= 1
    /\ DeadLetters = {}
    /\ \E m \in Messages : queue.msgs[m].state = "deleted" /\ queue.msgs[m].receives = 2

\* The message ids there can be: two uploads and the copy each may cause.
MessageIds == 1..4

\* C14: a message is delivered to the handler at most max_receive_count times,
\* 1 when none is configured; once it has failed that many times it is moved
\* to the dead-letter queue; a message in the dead-letter queue stays there
\* and is not delivered again; and the alarm condition holds exactly when the
\* dead-letter queue holds a message.
C14_DeadLetterAfterMaxReceives ==
    /\ [](\A m \in Messages :
            /\ queue.msgs[m].receives <= ConfiguredReceives
            /\ queue.msgs[m].state = "dlq" => queue.msgs[m].receives = ConfiguredReceives)
    /\ [](AlarmCondition(Cardinality(DeadLetters)) <=> DeadLetters # {})
    /\ [][\A m \in Messages :
            queue.msgs[m].state = "dlq" => queue'.msgs[m] = queue.msgs[m]]_vars
    /\ \A m \in MessageIds :
          (m \in Messages /\ queue.msgs[m].state = "visible"
              /\ queue.msgs[m].receives = ConfiguredReceives)
          ~> (m \in Messages /\ queue.msgs[m].state = "dlq")

\* A message that failed on both of its deliveries is in the dead-letter
\* queue and the alarm condition holds.
C14_Witness ==
    /\ queue.context = 2
    /\ \E m \in Messages : queue.msgs[m].state = "dlq" /\ queue.msgs[m].receives = 2
    /\ AlarmCondition(Cardinality(DeadLetters))

\* --------------------------------------------------- the custom resource
\* ddb_custom_resource.py: on_event and the table operations it calls, run by
\* one provider, one lifecycle event after the other.

\* Lifecycle events the provider delivers.
MaxInvocations == 2

\* The bucket whose mapping the events are about, and another bucket whose
\* record shares the table.
ReconBucket == "b1"
OtherBucket == "b2"

\* The prefixes MappingData and the table can hold for the bucket.
ReconPrefixes == {<<1>>, <<1, 2>>}

\* MappingData[prefix]: the key and the flag, the flag a string of the
\* context document.
DesiredEntries ==
    {[prefix |-> p, kms_key_arn |-> e[1], dual_layer_encryption |-> e[2]] :
        p \in ReconPrefixes, e \in {<<"k1", "false">>, <<"k2", "false">>, <<"k1", "true">>}}

\* MappingData: a dict, its entries in the order of the document, its keys
\* (the prefixes) distinct.
MappingDocs ==
    {<<>>} \cup {<<e>> : e \in DesiredEntries}
           \cup {d \in DesiredEntries \X DesiredEntries : d[1].prefix # d[2].prefix}

\* `prefix in mapping_data`, `for prefix in mapping_data`
DocPrefixes(mapping_data) == {mapping_data[i].prefix : i \in DOMAIN mapping_data}

\* f"CRToManageMappingForBucket{bucket_name}": the two parts of the string.
CreatedId(bucket_name) == <<"CRToManageMappingForBucket", bucket_name>>

\* The event of a Create carries no PhysicalResourceId.
NoId == <<>>

\* on_event has not returned (or has raised): there is no response.
NoPhysicalId == [PhysicalResourceId |-> NoId]

\* The event of on_event: RequestType, PhysicalResourceId and, of
\* ResourceProperties, BucketName and MappingData.
Event(t, id, b, d) ==
    [RequestType |-> t, PhysicalResourceId |-> id, bucket_name |-> b, mapping_data |-> d]

\* The events of the reconciliation specification: the provider hands Update
\* and Delete the id Create returned.  on_delete does not read MappingData.
ReconEvents ==
    {Event("Create", NoId, ReconBucket, d) : d \in MappingDocs}
    \cup {Event("Update", CreatedId(ReconBucket), ReconBucket, d) : d \in MappingDocs}
    \cup {Event("Delete", CreatedId(ReconBucket), ReconBucket, <<>>)}

\* What the table can hold before the first event: records an earlier
\* deployment wrote (inserted at 0, updated at 1), and one of another bucket.
PriorItems ==
    {MappingItem("k1", FALSE, 0, 1), MappingItem("k2", FALSE, 0, 1), MappingItem("k1", TRUE, 0, 1)}

OtherRecords == [k \in {<<OtherBucket, <<1>>>>} |-> MappingItem("k2", TRUE, 0, 0)]

PriorTables ==
    {t @@ OtherRecords :
        t \in UNION {[{ReconBucket} \X D -> PriorItems] : D \in SUBSET ReconPrefixes}}

InitReconcile ==
    /\ mapping \in PriorTables
    /\ NoRemediation
    /\ batch = NoBatch /\ queue = NoQueue /\ waiting = NoRecon
    /\ recon = [n |-> 0, pc |-> "idle", event |-> [RequestType |-> None], i |-> 0,
                items |-> <<>>, clock |-> 1, writes |-> <<>>, before |-> mapping,
                raised |-> <<>>, status |-> "none", response |-> NoPhysicalId]

\* The truth value Python gives a string: bool(dual_layer_encryption).
DualLayerTruthy(s) == s # ""

\* dual_layer_encryption == 'true'
DualLayer(s) == s = "true"

\* The value of an entry of MappingData for a key the entry lacks: reading
\* it raises KeyError.
Missing == "KeyError"

\* mapping_data[prefix]['kms_key_arn'] or
\* mapping_data[prefix]['dual_layer_encryption'] raises KeyError.
Malformed(e) == e.kms_key_arn = Missing \/ e.dual_layer_encryption = Missing

\* An exception leaves on_event: the invocation ends and the provider reports
\* the failure.
Raise(exception) ==
    [recon EXCEPT !.pc = "idle", !.status = "FAILED", !.raised = Append(@, exception)]

\* The clock read of the next iteration: later than every earlier read.
CurrTs == recon.clock + 1

\* A put that leaves an item the key already holds as it is.
PutIfAbsent(table, key, item) == IF key \in DOMAIN table THEN table ELSE table @@ (key :> item)

\* batch.put_item(Item = {...}): the item replaces whatever the key held.
PutMappingItem(table, key, item) == [k \in DOMAIN table \cup {key} |-> IF k = key THEN item ELSE table[k]]

\* The position after the loop over mapping_data has handled entry i.
AfterEntry(after) == IF recon.i >= Len(recon.event.mapping_data) THEN after ELSE recon.pc

\* A dispatch that takes every request type it does not know for an Update.
DispatchLenient(e) ==
    IF e.RequestType = "Create"
        THEN (IF e.mapping_data = <<>> THEN "return" ELSE "insert")
    ELSE IF e.RequestType = "Delete" THEN "query"
    ELSE (IF e.mapping_data = <<>> THEN "query" ELSE "update")

\* The dispatch of on_event on RequestType: where the function it calls
\* begins (an empty MappingData has no loop iteration), or "raise" for
\* raise Exception("Invalid request type: ...").
Dispatch(e) ==
    IF e.RequestType = "Create"
        THEN (IF e.mapping_data = <<>> THEN "return" ELSE "insert")
    ELSE IF e.RequestType = "Update"
        THEN (IF e.mapping_data = <<>> THEN "query" ELSE "update")
    ELSE IF e.RequestType = "Delete" THEN "query"
    ELSE "raise"

\* The invocation for event e after the dispatch of on_event.
Invoked(e) ==
    LET started == [recon EXCEPT
                       !.n = @ + 1, !.event = e, !.i = 1, !.items = <<>>, !.writes = <<>>,
                       !.before = mapping, !.raised = <<>>, !.status = "none",
                       !.response = NoPhysicalId]
    IN  IF Dispatch(e) = "raise"
        THEN [started EXCEPT !.pc = "idle", !.status = "FAILED", !.raised = <<"Exception">>]
        ELSE [started EXCEPT !.pc = Dispatch(e)]

\* on_event: the dispatch on RequestType, up to the first table operation.
OnEvent(e) ==
    /\ recon.pc = "idle"
    /\ recon.n < MaxInvocations
    /\ recon' = Invoked(e)
    /\ UNCHANGED <<mapping, resolved, remediationVars, batch, queue, waiting>>

\* insert_ddb_items: one iteration of the loop, the put it batches included.
\* A KeyError leaves the with block: the batch writer flushes on exit, so
\* the puts of the earlier iterations are written all the same.
InsertItem ==
    /\ recon.pc = "insert"
    /\ LET e == recon.event.mapping_data[recon.i]
           curr_ts == CurrTs
       IN  IF Malformed(e)
           THEN /\ mapping' = mapping
                /\ recon' = Raise("KeyError")
           ELSE /\ mapping' = PutMappingItem(mapping, <<recon.event.bucket_name, e.prefix>>,
                                      MappingItem(e.kms_key_arn, DualLayer(e.dual_layer_encryption),
                                                  curr_ts, curr_ts))
                /\ recon' = [recon EXCEPT
                                !.clock = curr_ts, !.i = @ + 1, !.pc = AfterEntry("return"),
                                !.writes = Append(@, [op |-> "put", prefix |-> e.prefix])]
    /\ UNCHANGED <<resolved, remediationVars, batch, queue, waiting>>

\* A condition that compares only the attributes of an item that exists.
ConditionOnItem(table, key, k, d) ==
    /\ key \in DOMAIN table
    /\ table[key].kms_key_arn # k \/ table[key].dual_layer_encryption # d

\* An update_item without a ConditionExpression.
Unconditional(table, key, k, d) == TRUE

\* A condition whose :d is given as a DynamoDB string: the stored boolean
\* differs from it whatever its value.
ConditionOnString(table, key, k, d) ==
    \/ key \notin DOMAIN table
    \/ table[key].kms_key_arn # k
    \/ table[key].dual_layer_encryption \in BOOLEAN

\* ConditionExpression "kms_key_arn <> :k or dual_layer_encryption <> :d"; an
\* attribute the item lacks differs from every value, so the condition holds
\* where there is no item.
ConditionExpression(table, key, k, d) ==
    \/ key \notin DOMAIN table
    \/ table[key].kms_key_arn # k
    \/ table[key].dual_layer_encryption # d

\* insert_ts = :t in place of if_not_exists(insert_ts, :t)
AlwaysNow(table, key, t) == t

\* if_not_exists(insert_ts, :t)
IfNotExists(table, key, t) == IF key \in DOMAIN table THEN table[key].insert_ts ELSE t

\* A try block whose except clause catches nothing.
CaughtNone(exception) == FALSE

\* A try block with a bare except clause.
CaughtAll(exception) == TRUE

\* except table.meta.client.exceptions.ConditionalCheckFailedException
Caught(exception) == exception = "ConditionalCheckFailedException"

\* update_item has raised inside the try block: the except clause catches the
\* exception and the loop goes on with the next entry, or the exception
\* leaves on_event.  The clock has been read for :t either way.
Except(exception) ==
    IF Caught(exception)
    THEN [recon EXCEPT !.clock = CurrTs, !.i = @ + 1, !.pc = AfterEntry("query"),
                       !.raised = Append(@, exception)]
    ELSE [Raise(exception) EXCEPT !.clock = CurrTs]

\* update_ddb_items: one iteration of the loop.  The entry is read outside
\* the try block; the update is applied where the condition holds, and where
\* it does not update_item raises ConditionalCheckFailedException.
UpdateItem ==
    /\ recon.pc = "update"
    /\ LET e == recon.event.mapping_data[recon.i]
           key == <<recon.event.bucket_name, e.prefix>>
           k == e.kms_key_arn
           d == DualLayer(e.dual_layer_encryption)
           t == CurrTs
       IN  IF Malformed(e)
           THEN /\ mapping' = mapping
                /\ recon' = Raise("KeyError")
           ELSE IF ConditionExpression(mapping, key, k, d)
           THEN /\ mapping' = PutMappingItem(mapping, key,
                                      MappingItem(k, d, IfNotExists(mapping, key, t), t))
                /\ recon' = [recon EXCEPT
                                !.clock = t, !.i = @ + 1, !.pc = AfterEntry("query"),
                                !.writes = Append(@, [op |-> "update", prefix |-> e.prefix])]
           ELSE /\ mapping' = mapping
                /\ recon' = Except("ConditionalCheckFailedException")
    /\ UNCHANGED <<resolved, remediationVars, batch, queue, waiting>>

\* The sort keys of a set in ascending order (the order of a query).
RECURSIVE Ascending(_)
Ascending(ps) ==
    IF ps = {} THEN <<>>
    ELSE LET low == CHOOSE p \in ps : \A q \in ps : LexLeq(p, q)
         IN  <<low>> \o Ascending(ps \ {low})

\* A scan in place of the query: the items of every partition.
QueryAllPartitions(table, bucket_name, first) ==
    LET own == Ascending({k[2] : k \in {x \in DOMAIN table : x[1] = bucket_name}})
        rest == Ascending({k[2] : k \in {x \in DOMAIN table : x[1] # bucket_name}})
    IN  [j \in 1..(Len(own) + Len(rest)) |->
            IF j <= Len(own)
            THEN [bucket_name |-> bucket_name, prefix |-> own[j], projected |-> TRUE]
            ELSE [bucket_name |->
                      (CHOOSE x \in DOMAIN table :
                          x[1] # bucket_name /\ x[2] = rest[j - Len(own)])[1],
                  prefix |-> rest[j - Len(own)], projected |-> TRUE]]

\* query_table: the items of the partition.  The first page is projected on
\* the key attributes; the pages after it are queried without a projection, so
\* their items carry every attribute.  Where the pages break is DynamoDB's
\* choice (first: the number of items of the first page).
QueryTable(table, bucket_name, first) ==
    LET ps == Ascending({k[2] : k \in {x \in DOMAIN table : x[1] = bucket_name}})
    IN  [j \in DOMAIN ps |->
            [bucket_name |-> bucket_name, prefix |-> ps[j], projected |-> j <= first]]

\* The first call of delete_missing_ddb_items and of delete_ddb_items.
Query ==
    /\ recon.pc = "query"
    /\ LET count == Cardinality({k \in DOMAIN mapping : k[1] = recon.event.bucket_name})
       IN  \E first \in 1..(IF count = 0 THEN 1 ELSE count) :
              recon' = [recon EXCEPT
                           !.items = QueryTable(mapping, recon.event.bucket_name, first),
                           !.pc = "delete"]
    /\ UNCHANGED <<mapping, resolved, remediationVars, batch, queue, waiting>>

\* A delete loop that hands nothing to batch.delete_item.
ToDeleteNothing(event, items) == <<>>

\* A delete loop that hands every item of the query to batch.delete_item, in
\* on_update as in on_delete.
ToDeleteEvery(event, items) == items

\* The items the delete loop hands to batch.delete_item: in on_update those
\* whose prefix is not in mapping_data, in on_delete all of them.
ToDelete(event, items) ==
    SelectSeq(items, LAMBDA item :
        event.RequestType = "Delete" \/ item.prefix \notin DocPrefixes(event.mapping_data))

\* delete_missing_ddb_items / delete_ddb_items after the query: the batch of
\* delete_item(Key = item).  A Key that carries more than the key attributes
\* is rejected (ValidationException) and the batch deletes nothing.
DeleteItems ==
    /\ recon.pc = "delete"
    /\ LET batch_items == ToDelete(recon.event, recon.items)
           keys == {<<batch_items[j].bucket_name, batch_items[j].prefix>> : j \in DOMAIN batch_items}
       IN  IF \E j \in DOMAIN batch_items : ~batch_items[j].projected
           THEN /\ mapping' = mapping
                /\ recon' = Raise("ValidationException")
           ELSE /\ mapping' = [k \in DOMAIN mapping \ keys |-> mapping[k]]
                /\ recon' = [recon EXCEPT
                                !.pc = "return",
                                !.writes = @ \o [j \in DOMAIN batch_items |->
                                                    [op |-> "delete", prefix |-> batch_items[j].prefix]]]
    /\ UNCHANGED <<resolved, remediationVars, batch, queue, waiting>>

\* A call of the table raises (throttling, access denied, ...) and writes
\* nothing.  In update_ddb_items the call is inside the try block (and is not
\* reached for an entry whose read raises); elsewhere nothing catches the
\* exception.
CallRaises ==
    /\ recon.pc \in {"insert", "update", "query", "delete"}
    /\ recon.pc = "update" => ~Malformed(recon.event.mapping_data[recon.i])
    /\ IF recon.pc = "update"
       THEN recon' = Except("ClientError")
       ELSE recon' = Raise("ClientError")
    /\ UNCHANGED <<mapping, resolved, remediationVars, batch, queue, waiting>>

\* An id made from the bucket name whatever the request type.
PhysicalIdOfBucket(e) == CreatedId(e.bucket_name)

\* The id on_create makes, the id on_update and on_delete read from the event.
PhysicalId(e) ==
    IF e.RequestType = "Create" THEN CreatedId(e.bucket_name) ELSE e.PhysicalResourceId

\* A return that first writes an entry to the log table.
ReturnIdLogged ==
    /\ recon.pc = "return"
    /\ recon' = [recon EXCEPT !.pc = "idle", !.status = "SUCCESS",
                              !.response = [PhysicalResourceId |-> PhysicalId(recon.event)]]
    /\ log' = [k \in {<<recon.event.bucket_name, recon.clock>>} |-> recon.event.RequestType]
    /\ UNCHANGED <<mapping, resolved, versioned, objects, created, uploads, now, deliveries,
                   processed, hs, notifications, batch, queue, waiting>>

\* return {'PhysicalResourceId': ...}
ReturnId ==
    /\ recon.pc = "return"
    /\ recon' = [recon EXCEPT !.pc = "idle", !.status = "SUCCESS",
                              !.response = [PhysicalResourceId |-> PhysicalId(recon.event)]]
    /\ UNCHANGED <<mapping, resolved, remediationVars, batch, queue, waiting>>

NextReconcile ==
    \/ \E e \in ReconEvents : OnEvent(e)
    \/ InsertItem
    \/ UpdateItem
    \/ Query
    \/ DeleteItems
    \/ CallRaises
    \/ ReturnId

SpecReconcile == InitReconcile /\ [][NextReconcile]_vars

\* ------------------------------------------------------- claims C15 - C20
\* The prefixes the table holds for a bucket.
TablePrefixes(table, bucket_name) == {k[2] : k \in {x \in DOMAIN table : x[1] = bucket_name}}

\* The entry of a document for a prefix it holds.
DocEntry(mapping_data, p) ==
    mapping_data[CHOOSE i \in DOMAIN mapping_data : mapping_data[i].prefix = p]

\* An invocation for the given request type has returned.
Succeeded(t) == recon.pc = "idle" /\ recon.status = "SUCCESS" /\ recon.event.RequestType = t

\* C15: when on_update has returned, whatever the table held before, the
\* records of the bucket are those of the prefixes of MappingData, each with
\* the kms_key_arn of its entry and dual_layer_encryption true exactly when
\* the entry's flag is the string "true".
C15_UpdateYieldsDesired ==
    Succeeded("Update") =>
        /\ TablePrefixes(mapping, recon.event.bucket_name) = DocPrefixes(recon.event.mapping_data)
        /\ \A p \in DocPrefixes(recon.event.mapping_data) :
              LET item == mapping[<<recon.event.bucket_name, p>>]
                  e == DocEntry(recon.event.mapping_data, p)
              IN  /\ item.kms_key_arn = e.kms_key_arn
                  /\ item.dual_layer_encryption = (e.dual_layer_encryption = "true")

\* An update that changed one record and deleted another has returned.
C15_Witness ==
    /\ Succeeded("Update")
    /\ \E i, j \in DOMAIN recon.writes :
          recon.writes[i].op = "update" /\ recon.writes[j].op = "delete"
    /\ TablePrefixes(recon.before, ReconBucket) # DocPrefixes(recon.event.mapping_data)

\* The writes the running (or last) invocation has applied to a prefix.
WritesTo(p) == {i \in DOMAIN recon.writes : recon.writes[i].prefix = p}

\* The table held a record for the prefix when the invocation began, with the
\* key and the flag MappingData gives it.
Unchanged(p) ==
    /\ p \in DocPrefixes(recon.event.mapping_data)
    /\ <<recon.event.bucket_name, p>> \in DOMAIN recon.before
    /\ recon.before[<<recon.event.bucket_name, p>>].kms_key_arn
          = DocEntry(recon.event.mapping_data, p).kms_key_arn
    /\ recon.before[<<recon.event.bucket_name, p>>].dual_layer_encryption
          = (DocEntry(recon.event.mapping_data, p).dual_layer_encryption = "true")

\* C16: on_update writes no more than it must.  At every point of the
\* invocation a record that already has the key and the flag of its entry has
\* not been written and is the record the table held before, last_update_ts
\* included; when the invocation has returned, every other prefix of
\* MappingData has been written by exactly one update_item, every prefix of
\* the table that MappingData lacks by exactly one delete_item, and no other
\* prefix at all.
C16_UpdateWritesMinimally ==
    recon.event.RequestType = "Update" =>
        \A p \in ReconPrefixes :
            LET key == <<recon.event.bucket_name, p>>
                desired == p \in DocPrefixes(recon.event.mapping_data)
                existed == key \in DOMAIN recon.before
            IN  /\ Unchanged(p) =>
                      /\ WritesTo(p) = {}
                      /\ key \in DOMAIN mapping /\ mapping[key] = recon.before[key]
                /\ Succeeded("Update") =>
                      /\ (desired /\ ~Unchanged(p)) =>
                            /\ Cardinality(WritesTo(p)) = 1
                            /\ \A i \in WritesTo(p) : recon.writes[i].op = "update"
                      /\ (~desired /\ existed) =>
                            /\ Cardinality(WritesTo(p)) = 1
                            /\ \A i \in WritesTo(p) : recon.writes[i].op = "delete"
                      /\ (~desired /\ ~existed) => WritesTo(p) = {}

\* An update has returned that found one record up to date and wrote another.
C16_Witness ==
    /\ Succeeded("Update")
    /\ \E p, q \in ReconPrefixes : Unchanged(p) /\ WritesTo(q) # {}

\* The loop of update_ddb_items is at the entry of prefix p, the table holds a
\* record for it, and the record's key or flag is not the entry's.
AtDiffering(p) ==
    /\ recon.pc = "update"
    /\ recon.event.mapping_data[recon.i].prefix = p
    /\ <<recon.event.bucket_name, p>> \in DOMAIN mapping
    /\ \/ mapping[<<recon.event.bucket_name, p>>].kms_key_arn
             # recon.event.mapping_data[recon.i].kms_key_arn
       \/ mapping[<<recon.event.bucket_name, p>>].dual_layer_encryption
             # (recon.event.mapping_data[recon.i].dual_layer_encryption = "true")

\* C17: the iteration of update_ddb_items that finds a record whose
\* kms_key_arn or dual_layer_encryption differs from its entry, and whose
\* update_item does not raise, leaves the record with the entry's key, the
\* entry's converted flag, a last_update_ts that is the time of this update
\* (later than the one it had) and the insert_ts it had.
C17_DifferingRecordUpdated ==
    [][\A p \in ReconPrefixes :
          (AtDiffering(p) /\ recon'.status # "FAILED") =>
              LET key == <<recon.event.bucket_name, p>>
                  e == recon.event.mapping_data[recon.i]
              IN  /\ key \in DOMAIN mapping'
                  /\ mapping'[key].kms_key_arn = e.kms_key_arn
                  /\ mapping'[key].dual_layer_encryption = (e.dual_layer_encryption = "true")
                  /\ mapping'[key].last_update_ts = recon'.clock
                  /\ mapping'[key].last_update_ts > mapping[key].last_update_ts
                  /\ mapping'[key].insert_ts = mapping[key].insert_ts]_vars

\* An update has rewritten a record that differed: it has a new
\* last_update_ts and the insert_ts it had before the invocation.
C17_Witness ==
    /\ recon.event.RequestType = "Update"
    /\ \E p \in ReconPrefixes :
          LET key == <<recon.event.bucket_name, p>>
          IN  /\ key \in DOMAIN recon.before /\ key \in DOMAIN mapping
              /\ WritesTo(p) # {}
              /\ mapping[key].kms_key_arn # recon.before[key].kms_key_arn
              /\ mapping[key].last_update_ts # recon.before[key].last_update_ts
              /\ mapping[key].insert_ts = recon.before[key].insert_ts
              /\ mapping[key].insert_ts # mapping[key].last_update_ts

\* C18: insert_ts of a record never changes while the record exists: no step
\* of on_create, on_update or on_delete that finds a record and leaves a
\* record under the same key changes its insert_ts, a Create for a bucket
\* that already has a record for the prefix included.
C18_InsertTsImmutable ==
    [][\A key \in DOMAIN mapping \cap DOMAIN mapping' :
          mapping'[key].insert_ts = mapping[key].insert_ts]_vars

\* The record of prefix p carries the key and the converted flag of its entry
\* in MappingData, and one timestamp as insert_ts and last_update_ts.
FreshlyInserted(p) ==
    LET key == <<recon.event.bucket_name, p>>
        e == DocEntry(recon.event.mapping_data, p)
    IN  /\ key \in DOMAIN mapping
        /\ mapping[key].kms_key_arn = e.kms_key_arn
        /\ mapping[key].dual_layer_encryption = (e.dual_layer_encryption = "true")
        /\ mapping[key].insert_ts = mapping[key].last_update_ts

\* C19: on_update inserts the records the table lacks.  A prefix of
\* MappingData without a record when the invocation began has, once its
\* update_item has been applied and at the latest when the invocation has
\* returned, a record with the entry's key and flag and with
\* insert_ts = last_update_ts, written by exactly one update_item.
C19_UpdateInsertsAbsent ==
    recon.event.RequestType = "Update" =>
        \A p \in DocPrefixes(recon.event.mapping_data) :
            <<recon.event.bucket_name, p>> \notin DOMAIN recon.before =>
                /\ (WritesTo(p) # {} \/ Succeeded("Update")) => FreshlyInserted(p)
                /\ Succeeded("Update") =>
                      /\ Cardinality(WritesTo(p)) = 1
                      /\ \A i \in WritesTo(p) : recon.writes[i].op = "update"

\* An update has returned that inserted a record into a partition that held
\* none for the prefix.
C19_Witness ==
    /\ Succeeded("Update")
    /\ \E p \in DocPrefixes(recon.event.mapping_data) :
          /\ <<recon.event.bucket_name, p>> \notin DOMAIN recon.before
          /\ FreshlyInserted(p)
          /\ mapping[<<recon.event.bucket_name, p>>].insert_ts = recon.clock

\* C20: when on_create has returned it has put exactly one item per entry of
\* MappingData and nothing else, and the record of every entry carries the
\* entry's key and flag and insert_ts = last_update_ts, whatever the table
\* held for the prefix before.
C20_CreateInsertsEachEntry ==
    Succeeded("Create") =>
        /\ Len(recon.writes) = Len(recon.event.mapping_data)
        /\ \A i \in DOMAIN recon.writes :
              /\ recon.writes[i].op = "put"
              /\ recon.writes[i].prefix = recon.event.mapping_data[i].prefix
        /\ \A p \in DocPrefixes(recon.event.mapping_data) : FreshlyInserted(p)
        /\ \A key \in DOMAIN recon.before :
              key[2] \notin DocPrefixes(recon.event.mapping_data) \/ key[1] # recon.event.bucket_name
                  => key \in DOMAIN mapping /\ mapping[key] = recon.before[key]

\* A create with two entries has returned, one of them for a prefix the table
\* already held.
C20_Witness ==
    /\ Succeeded("Create")
    /\ Len(recon.event.mapping_data) = 2
    /\ \E p \in DocPrefixes(recon.event.mapping_data) :
          <<recon.event.bucket_name, p>> \in DOMAIN recon.before
    /\ \A p \in DocPrefixes(recon.event.mapping_data) : FreshlyInserted(p)

\* ---------------------------------------------- lifecycle events at large
\* The custom resource under events the reconciliation specification leaves
\* out: either bucket, a PhysicalResourceId that Create did not make, a
\* request type on_event does not know, flags that are not 'true' or 'false'.

\* A PhysicalResourceId some other provider gave the resource.
ForeignId == <<"MappingResource", "1">>

\* MappingData of the lifecycle specification.
LifecycleDocs ==
    {<<>>}
    \cup {<<[prefix |-> <<1>>, kms_key_arn |-> "k1", dual_layer_encryption |-> f]>> :
             f \in {"true", "false", "True", ""}}
    \cup {<<[prefix |-> <<1, 2>>, kms_key_arn |-> "k2", dual_layer_encryption |-> "false"],
             [prefix |-> <<1>>, kms_key_arn |-> "k1", dual_layer_encryption |-> "TRUE"]>>}

LifecycleEvents ==
    {Event("Create", NoId, b, d) : b \in {ReconBucket, OtherBucket}, d \in LifecycleDocs}
    \cup {Event("Update", id, b, d) :
             id \in {CreatedId(ReconBucket), ForeignId}, b \in {ReconBucket, OtherBucket},
             d \in LifecycleDocs}
    \cup {Event("Delete", id, b, <<>>) :
             id \in {CreatedId(ReconBucket), ForeignId}, b \in {ReconBucket, OtherBucket}}
    \cup {Event(t, CreatedId(ReconBucket), ReconBucket, d) :
             t \in {"Replace", "update"}, d \in LifecycleDocs}

NextLifecycle ==
    \/ \E e \in LifecycleEvents : OnEvent(e)
    \/ InsertItem
    \/ UpdateItem
    \/ Query
    \/ DeleteItems
    \/ CallRaises
    \/ ReturnId

SpecLifecycle == InitReconcile /\ [][NextLifecycle]_vars

\* ------------------------------------------------------- claims C21 - C30
\* C21: the PhysicalResourceId on_event returns.  on_create returns the id
\* made of the fixed text and the bucket name, whatever MappingData and the
\* time; on_update and on_delete return the PhysicalResourceId of their
\* event.
C21_PhysicalIdStable ==
    /\ Succeeded("Create") =>
          recon.response.PhysicalResourceId = <<"CRToManageMappingForBucket", recon.event.bucket_name>>
    /\ (Succeeded("Update") \/ Succeeded("Delete")) =>
          recon.response.PhysicalResourceId = recon.event.PhysicalResourceId
    /\ recon.status # "SUCCESS" => recon.response.PhysicalResourceId = NoId

\* An update has returned the id of its event, an id Create would not have
\* made for the bucket.
C21_Witness ==
    /\ Succeeded("Update")
    /\ recon.event.PhysicalResourceId = ForeignId
    /\ recon.response.PhysicalResourceId = ForeignId
    /\ recon.writes # <<>>

\* The invocation has ended, by a return or by an exception.
EndedFor(t) == recon.pc = "idle" /\ recon.n > 0 /\ recon.event.RequestType = t

\* The exceptions raised in the invocation.
Raised == {recon.raised[i] : i \in DOMAIN recon.raised}

\* C22: on_delete, when no call of the table fails on DynamoDB's side,
\* returns and leaves no record of the bucket; for a bucket without records
\* (a second Delete included) it returns and leaves the table as it was.
C22_TeardownRemovesAll ==
    (EndedFor("Delete") /\ "ClientError" \notin Raised) =>
        /\ recon.status = "SUCCESS"
        /\ TablePrefixes(mapping, recon.event.bucket_name) = {}
        /\ TablePrefixes(recon.before, recon.event.bucket_name) = {} => mapping = recon.before

\* ------------------------------------------- two concurrent invocations
\* Two invocations of the custom resource at a time, one per bucket (two
\* stacks deployed together).  recon is the invocation that takes the next
\* step, waiting the other one; Switch hands the turn over, so the steps of
\* the two interleave in every order.

\* MappingData of the concurrent invocations.
PartitionDocs == {d \in MappingDocs : Len(d) <= 1}

PartitionEvents(b) ==
    {Event("Create", NoId, b, d) : d \in PartitionDocs}
    \cup {Event("Update", CreatedId(b), b, d) : d \in PartitionDocs}
    \cup {Event("Delete", CreatedId(b), b, <<>>)}

\* An invocation for bucket b that has not begun.
NotBegun(b) ==
    [n |-> 0, pc |-> "idle",
     event |-> Event(None, NoId, b, <<>>), i |-> 0,
     items |-> <<>>, clock |-> 1, writes |-> <<>>, before |-> mapping,
     raised |-> <<>>, status |-> "none", response |-> NoPhysicalId]

InitPartition ==
    /\ mapping \in PriorTables
    /\ NoRemediation
    /\ batch = NoBatch /\ queue = NoQueue
    /\ recon = NotBegun(ReconBucket)
    /\ waiting = NotBegun(OtherBucket)

\* The provider invokes on_event for the bucket of the stack.
Begin ==
    /\ recon.n = 0
    /\ \E e \in PartitionEvents(recon.event.bucket_name) : OnEvent(e)

\* The other invocation takes the next steps.
Switch ==
    /\ recon' = waiting
    /\ waiting' = recon
    /\ UNCHANGED <<mapping, resolved, remediationVars, batch, queue>>

NextPartition ==
    \/ Begin
    \/ InsertItem
    \/ UpdateItem
    \/ Query
    \/ DeleteItems
    \/ CallRaises
    \/ ReturnId
    \/ Switch

SpecPartition == InitPartition /\ [][NextPartition]_vars

\* The records of the bucket of invocation r are those of its MappingData.
YieldsDesired(r) ==
    /\ TablePrefixes(mapping, r.event.bucket_name) = DocPrefixes(r.event.mapping_data)
    /\ \A p \in DocPrefixes(r.event.mapping_data) :
          LET item == mapping[<<r.event.bucket_name, p>>]
              e == DocEntry(r.event.mapping_data, p)
          IN  /\ item.kms_key_arn = e.kms_key_arn
              /\ item.dual_layer_encryption = (e.dual_layer_encryption = "true")

\* The part of a table that belongs to other buckets than b.
OtherPartitions(table, b) == [k \in {x \in DOMAIN table : x[1] # b} |-> table[k]]

\* C23: the invocations are partitioned by bucket.  Whatever the request type,
\* no step of an invocation changes, adds or removes a record of another
\* bucket, and the items an invocation has read are items of its own bucket;
\* an on_update that has returned has left the records of its bucket equal to
\* its MappingData, and they stay so however the steps of the invocation for
\* the other bucket fall before, between and after its own.
C23_PartitionedByBucket ==
    /\ [](\A r \in {recon, waiting} :
            /\ \A j \in DOMAIN r.items : r.items[j].bucket_name = r.event.bucket_name
            /\ (r.pc = "idle" /\ r.status = "SUCCESS" /\ r.event.RequestType = "Update")
                  => YieldsDesired(r))
    /\ [][OtherPartitions(mapping', recon.event.bucket_name)
            = OtherPartitions(mapping, recon.event.bucket_name)]_vars

\* An update has run from its first step to its return while the invocation
\* for the other bucket, which had written before, was still under way; both
\* have written.
C23_Witness ==
    /\ recon.pc = "idle" /\ recon.status = "SUCCESS" /\ recon.event.RequestType = "Update"
    /\ recon.writes # <<>>
    /\ waiting.pc = "delete" /\ waiting.event.RequestType = "Update" /\ waiting.writes # <<>>
    /\ OtherPartitions(recon.before, recon.event.bucket_name)
          # OtherPartitions(waiting.before, recon.event.bucket_name)

\* The exceptions a failed call of the table raises: one DynamoDB raises on
\* its side, or the rejection of a delete_item key.
CallFailures == {"ClientError", "ValidationException"}

\* C24: a failed read or write ends the invocation in an error.  Once a call
\* of the table has raised anything but ConditionalCheckFailedException, in
\* on_create, on_update or on_delete, the invocation has stopped where it
\* was, the exception has left on_event and there is no response; so an
\* invocation that has returned has had no failed call.
C24_FailedCallEndsInError ==
    /\ Raised \cap CallFailures # {} =>
          /\ recon.pc = "idle"
          /\ recon.status = "FAILED"
          /\ recon.response = NoPhysicalId
          /\ recon.raised[Len(recon.raised)] \in CallFailures
    /\ recon.status = "SUCCESS" => Raised \subseteq {"ConditionalCheckFailedException"}

\* An update has ended in an error after a write of it had been applied.
C24_Witness ==
    /\ EndedFor("Update")
    /\ recon.status = "FAILED"
    /\ "ClientError" \in Raised
    /\ recon.writes # <<>>
    /\ recon.i <= Len(recon.event.mapping_data)

\* C25: an event whose RequestType is not Create, Update or Delete makes
\* on_event raise; the table is what it was before the invocation and no
\* call of the table has been made.
C25_UnknownVerbRaises ==
    (recon.n > 0 /\ recon.event.RequestType \notin {"Create", "Update", "Delete"}) =>
        /\ recon.pc = "idle"
        /\ recon.status = "FAILED"
        /\ recon.raised = <<"Exception">>
        /\ recon.writes = <<>> /\ recon.items = <<>>
        /\ mapping = recon.before

\* on_event has raised for a request type it does not know, the event
\* carrying a MappingData that differs from the table.
C25_Witness ==
    /\ recon.n > 0
    /\ recon.event.RequestType = "update"
    /\ recon.status = "FAILED"
    /\ recon.event.mapping_data # <<>>
    /\ TablePrefixes(mapping, recon.event.bucket_name) # DocPrefixes(recon.event.mapping_data)

\* ------------------------------------------------- malformed MappingData
\* The custom resource under documents with an entry that lacks kms_key_arn
\* or dual_layer_encryption, alone, before or after a well-formed entry.

\* A well-formed entry for a prefix.
WellFormed(p) == [prefix |-> p, kms_key_arn |-> "k2", dual_layer_encryption |-> "true"]

MalformedEntries ==
    {[prefix |-> <<1>>, kms_key_arn |-> Missing, dual_layer_encryption |-> "false"],
     [prefix |-> <<1, 2>>, kms_key_arn |-> "k1", dual_layer_encryption |-> Missing]}

\* The other prefix of the two.
OtherPrefix(p) == CHOOSE q \in ReconPrefixes : q # p

MalformedDocs ==
    {<<e>> : e \in MalformedEntries}
    \cup {<<e, WellFormed(OtherPrefix(e.prefix))>> : e \in MalformedEntries}
    \cup {<<WellFormed(OtherPrefix(e.prefix)), e>> : e \in MalformedEntries}

MalformedEvents ==
    {Event("Create", NoId, ReconBucket, d) : d \in MalformedDocs}
    \cup {Event("Update", CreatedId(ReconBucket), ReconBucket, d) :
             d \in MalformedDocs \cup {<<WellFormed(<<1>>)>>}}

NextMalformed ==
    \/ \E e \in MalformedEvents : OnEvent(e)
    \/ InsertItem
    \/ UpdateItem
    \/ Query
    \/ DeleteItems
    \/ CallRaises
    \/ ReturnId

SpecMalformed == InitReconcile /\ [][NextMalformed]_vars

\* MappingData has an entry that lacks kms_key_arn or dual_layer_encryption.
HasMalformed(mapping_data) == \E i \in DOMAIN mapping_data : Malformed(mapping_data[i])

\* C26: a Create or an Update whose MappingData has a malformed entry, at
\* whatever position, ends in an error, and when it has ended no record of
\* the bucket has been inserted, updated or deleted: the table is the table
\* before the invocation.
C26_MalformedHasNoEffect ==
    (recon.n > 0 /\ recon.pc = "idle" /\ HasMalformed(recon.event.mapping_data)) =>
        /\ recon.status = "FAILED"
        /\ recon.writes = <<>>
        /\ mapping = recon.before

\* How often the conditional check has failed in the invocation.
CheckFailures ==
    Cardinality({i \in DOMAIN recon.raised : recon.raised[i] = "ConditionalCheckFailedException"})

\* C27: a failed conditional check is a no-op, not an error.  In on_update an
\* invocation never ends in an error with ConditionalCheckFailedException as
\* its last exception; the check fails once for each entry so far whose
\* record already had the entry's key and flag, that record is left as it
\* was, and when on_update has returned the check has failed for all such
\* entries and the entries after them and the delete loop have been carried
\* out: the records of the bucket are those of MappingData.
C27_CheckFailureIsNoop ==
    recon.event.RequestType = "Update" =>
        /\ (recon.status = "FAILED" /\ recon.raised # <<>>) =>
              recon.raised[Len(recon.raised)] # "ConditionalCheckFailedException"
        /\ CheckFailures <= Cardinality({p \in ReconPrefixes : Unchanged(p)})
        /\ Succeeded("Update") =>
              /\ CheckFailures = Cardinality({p \in ReconPrefixes : Unchanged(p)})
              /\ YieldsDesired(recon)
              /\ \A p \in ReconPrefixes :
                    Unchanged(p) => mapping[<<recon.event.bucket_name, p>>]
                                      = recon.before[<<recon.event.bucket_name, p>>]

\* An update has returned whose first entry failed the conditional check and
\* whose second entry was written after it.
C27_Witness ==
    /\ Succeeded("Update")
    /\ Len(recon.event.mapping_data) = 2
    /\ Unchanged(recon.event.mapping_data[1].prefix)
    /\ recon.raised = <<"ConditionalCheckFailedException">>
    /\ WritesTo(recon.event.mapping_data[2].prefix) # {}

\* C29: the flag a record stores.  In on_create and on_update alike a record
\* written for an entry has dual_layer_encryption TRUE exactly when the
\* entry's flag is the string "true" ("false", "True", "TRUE" and "" all
\* give FALSE); and the change test of on_update compares the stored flag
\* with that converted value: a record with the entry's key is rewritten by
\* an update that has returned exactly when its stored flag differed from it.
C29_FlagIsConverted ==
    recon.event.RequestType \in {"Create", "Update"} =>
        \A p \in DocPrefixes(recon.event.mapping_data) :
            LET key == <<recon.event.bucket_name, p>>
                flag == DocEntry(recon.event.mapping_data, p).dual_layer_encryption = "true"
            IN  /\ WritesTo(p) # {} =>
                      /\ key \in DOMAIN mapping
                      /\ mapping[key].dual_layer_encryption = flag
                /\ (/\ Succeeded("Update")
                    /\ key \in DOMAIN recon.before
                    /\ recon.before[key].kms_key_arn
                          = DocEntry(recon.event.mapping_data, p).kms_key_arn) =>
                      (WritesTo(p) # {} <=> recon.before[key].dual_layer_encryption # flag)

\* An update whose entry gives the flag "True" has returned without a write:
\* the record stored FALSE and the converted flag is FALSE.
C29_Witness ==
    /\ Succeeded("Update")
    /\ Len(recon.event.mapping_data) = 1
    /\ recon.event.mapping_data[1].dual_layer_encryption = "True"
    /\ <<recon.event.bucket_name, recon.event.mapping_data[1].prefix>> \in DOMAIN recon.before
    /\ recon.writes = <<>>
    /\ recon.raised = <<"ConditionalCheckFailedException">>
    /\ ~mapping[<<recon.event.bucket_name, recon.event.mapping_data[1].prefix>>].dual_layer_encryption

\* ----------------------------------------------------- the two engines
\* The remediation engine and the custom resource side by side: a behaviour
\* is one of the remediation specification or one of the reconciliation
\* specification (hs has handlers in the former and none in the latter).
InitEngines == InitRemediation \/ InitReconcile

NextEngines ==
    \/ DOMAIN hs # {} /\ Next
    \/ DOMAIN hs = {} /\ NextReconcile

SpecEngines == InitEngines /\ [][NextEngines]_vars

\* The calls the invocation of a handler has made on the stores it writes.
CallOps(h) == {hs[h].calls[i].op : i \in DOMAIN hs[h].calls}

\* C28: the engines write disjoint stores.  No step of the remediation
\* engine (the resolver's query included) changes the mapping table; no step
\* of the custom resource changes the log table or the object store; and the
\* only call the remediation engine makes on the log table is put_item, which
\* adds or replaces one item and returns nothing of the table.
C28_EnginesWriteDisjointStores ==
    [][/\ DOMAIN hs # {} =>
             /\ mapping' = mapping
             /\ \A h \in Handlers : CallOps(h) \subseteq {"put_item", "copy", "delete_object"}
             /\ log' # log =>
                   \E k \in DOMAIN log' :
                       \A j \in DOMAIN log' \ {k} : j \in DOMAIN log /\ log'[j] = log[j]
       /\ DOMAIN hs = {} => (log' = log /\ objects' = objects)]_vars

\* A handler has copied the object, deleted the old version and logged both
\* while the mapping table is one of the tables the behaviour began with.
C28_Witness ==
    /\ DOMAIN hs # {}
    /\ \E h \in Handlers : CallOps(h) = {"put_item", "copy", "delete_object"}
    /\ log # <<>>
    /\ mapping \in RemediationTables

\* Message m is a test event: its body parses and has no "Records".
TestEvent(m) == batch.event[m].body.parses /\ ~batch.event[m].body.has_records

\* C30: a message whose decoded body has no "Records" is ignored.  The step
\* of the loop at such a message moves on to the next message and changes
\* nothing else; fix_encryption_if_incorrect is never called for it, its
\* messageId is never in the failure list, the invocation never raises at
\* it, and when every other message is readable the invocation returns with
\* all their records processed.
C30_TestEventIgnored ==
    /\ [](\A m \in DOMAIN batch.event :
            TestEvent(m) =>
                /\ \A c \in batch.called : c[1] # m
                /\ \A k \in DOMAIN batch.batch_item_failures :
                      batch.batch_item_failures[k].itemIdentifier # batch.event[m].messageId
                /\ batch.event[m].messageId \notin Listed(batch.response)
                /\ batch.pc = "raised" => batch.i # m
                /\ (BatchEnded /\ \A n \in DOMAIN batch.event \ {m} : ~Unreadable(n)) =>
                      /\ batch.pc = "returned"
                      /\ \A n \in DOMAIN batch.event : RecordsOf(n) \subseteq batch.called)
    /\ [][(batch.pc = "loop" /\ batch.i <= Len(batch.event) /\ TestEvent(batch.i)) =>
             batch' = [batch EXCEPT !.i = @ + 1]]_vars

\* A batch whose first message is a test event has returned, the records of
\* its second message processed and one of them reported as failed.
C30_Witness ==
    /\ batch.pc = "returned"
    /\ Len(batch.event) >= 2
    /\ TestEvent(1)
    /\ batch.event[2].body.has_records
    /\ RecordsOf(2) \subseteq batch.called
    /\ Listed(batch.response) = {batch.event[2].messageId}

\* ------------------------------------------- claims on the rewrite's order
\* The contents uploaded so far.
Contents == 1..uploads

\* The versions of the object that hold content c.
Holding(c) == {v \in DOMAIN objects : objects[v].content = c}

\* C31: in a versioned bucket every content uploaded is held by at least one
\* version in every reachable state, whichever of the copy, the audit writes
\* and the delete fails; a handler that has called delete_object has a
\* completed copy of the same version before it in its calls; a non-versioned
\* object is never removed.
C31_ContentAlwaysHeld ==
    /\ versioned => \A c \in Contents : Holding(c) # {}
    /\ ~versioned => DOMAIN objects = {NoVersion}
    /\ \A h \in Handlers : \A i \in DOMAIN hs[h].calls :
          hs[h].calls[i].op = "delete_object" =>
              \E j \in 1..(i - 1) :
                  /\ hs[h].calls[j].op = "copy"
                  /\ hs[h].calls[j].source = hs[h].calls[i].version_id

\* The original version is gone, the audit write after the delete has failed,
\* and a second content has been uploaded meanwhile.
C31_Witness ==
    /\ versioned /\ uploads = 2
    /\ \E h \in Handlers :
          /\ hs[h].pc = "failed" /\ hs[h].error = "call failed"
          /\ HasOp(h, "delete_object")
          /\ hs[h].version_id \notin DOMAIN objects

\* The keys of the log entries with the action a.
EntriesOf(a) == {k \in DOMAIN log : log[k].action_taken = a}

\* C32: the audit log reports no action that did not happen.  The log holds
\* no more copy entries than copies were made (created counts the uploads and
\* the copies, uploads the uploads); the new version a copy entry names was
\* created; the version a delete entry names is gone from the bucket; and in
\* every invocation the call just before the put_item of a copy entry is the
\* completed copy of the notification's object, the call just before the
\* put_item of a delete entry the completed delete_object of the
\* notification's version.
C32_LogReportsCompletedActions ==
    /\ Cardinality(EntriesOf(ActionCopy)) <= created - uploads
    /\ \A k \in EntriesOf(ActionCopy) :
          "new_version_id" \in DOMAIN log[k] =>
              /\ log[k].new_version_id \in 2..created
              /\ log[k].new_version_id > VersionSuffix(k[1])
    /\ \A k \in EntriesOf(ActionDelete) :
          /\ VersionSuffix(k[1]) # NoVersion
          /\ VersionSuffix(k[1]) \notin DOMAIN objects
    /\ \A h \in Handlers : \A i \in DOMAIN hs[h].calls :
          /\ (hs[h].calls[i].op = "put_item" /\ hs[h].calls[i].action_taken = ActionCopy) =>
                /\ i > 1
                /\ hs[h].calls[i - 1].op = "copy"
                /\ hs[h].version_id # NoVersion =>
                      /\ hs[h].calls[i - 1].source = hs[h].version_id
                      /\ hs[h].calls[i - 1].new_version = hs[h].calls[i].new_version_id
          /\ (hs[h].calls[i].op = "put_item" /\ hs[h].calls[i].action_taken = ActionDelete) =>
                /\ i > 1
                /\ hs[h].calls[i - 1] = [op |-> "delete_object", version_id |-> hs[h].version_id]

\* The log holds a copy entry and a delete entry, and one copy more was made
\* than the log reports (its audit write failed).
C32_Witness ==
    /\ EntriesOf(ActionCopy) # {}
    /\ EntriesOf(ActionDelete) # {}
    /\ Cardinality(EntriesOf(ActionCopy)) < created - uploads

\* Version v of the object is encrypted as the resolved policy asks.
Compliant(v) == objects[v].sse = Desired.sse /\ objects[v].kms = Desired.kms

\* C33: when the processing of a notification for version V of an object
\* under a configured prefix has ended without an exception, V is compliant
\* with the policy or is no longer in the bucket; duplicate deliveries and
\* retries after a failed run included.
C33_SuccessLeavesVersionCompliantOrGone ==
    \A h \in Handlers :
        (/\ hs[h].pc = "done"
         /\ hs[h].version_id # NoVersion
         /\ MatchingPrefixes(Bucket, ObjectKey) # {}) =>
            \/ hs[h].version_id \notin DOMAIN objects
            \/ Compliant(hs[h].version_id)

\* The retry of a run that failed after its copy and before its delete: two
\* deliveries of version 1, one after the other on the same handler, each
\* made a copy, and the second has ended in success with version 1 gone.
C33_Witness ==
    /\ uploads = 1 /\ deliveries = 2 /\ created - uploads = 2
    /\ hs["h2"].pc = "idle"
    /\ hs["h1"].pc = "done"
    /\ hs["h1"].version_id = 1
    /\ HasOp("h1", "delete_object")
    /\ 1 \notin DOMAIN objects
    /\ \A v \in DOMAIN objects : Compliant(v)

\* ------------------------------- remediation fed by its own notifications
\* The handlers receive the notifications S3 sends for the objects created,
\* by uploads and by the copies of the rewrite alike, each delivered until an
\* invocation succeeds on it or it has been received max_receive_count times.

\* max_receive_count is not given in the context: the default applies.
FeedbackContext == NoContext

\* Most notifications the queue takes before the event source stops polling.
MaxNotifications == 8

\* The version id in the notification of creation event e.
VersionOf(e) == IF versioned THEN e ELSE NoVersion

\* The event source receives notification e and invokes the handler with it.
ReceiveNotification(h, e) ==
    /\ h \in Free /\ hs[h].msg = NoMsg
    /\ h = "h1" \/ "h1" \notin Free \/ hs["h1"].msg # NoMsg
    /\ Len(notifications) < MaxNotifications
    /\ e \in DOMAIN notifications
    /\ notifications[e].state = "visible"
    /\ notifications[e].receives < MaxReceiveCount(FeedbackContext)
    /\ notifications' = [notifications EXCEPT ![e].state = "inflight", ![e].receives = @ + 1]
    /\ deliveries' = deliveries + 1
    /\ hs' = [hs EXCEPT ![h] = [IdleHandler EXCEPT !.pc = "get_object",
                                                    !.version_id = VersionOf(e),
                                                    !.msg = e,
                                                    !.last_ts = now,
                                                    !.repeat = (VersionOf(e) \in processed),
                                                    !.fresh = TRUE]]
    /\ UNCHANGED <<otherVars, mapping, resolved, versioned, objects, created, uploads, log, now, processed>>

\* lambda_handler returns: the message of an invocation that raised is listed
\* in batchItemFailures and becomes visible again, the message of an
\* invocation that returned is deleted from the queue.
Settle(h) ==
    /\ hs[h].pc \in {"done", "failed"} /\ hs[h].msg # NoMsg
    /\ notifications' = [notifications EXCEPT ![hs[h].msg].state =
                             IF hs[h].pc = "done" THEN "deleted" ELSE "visible"]
    /\ hs' = [hs EXCEPT ![h].msg = NoMsg]
    /\ UNCHANGED <<otherVars, mapping, resolved, versioned, objects, created, uploads, log, now,
                   deliveries, processed>>

NextFeedback ==
    \/ Upload
    \/ \E h \in Handlers, e \in 1..MaxNotifications : ReceiveNotification(h, e)
    \/ \E h \in Handlers : Settle(h)
    \/ \E h \in Handlers : GetObject(h)
    \/ \E h \in Handlers : LogNotConfigured(h)
    \/ \E h \in Handlers : LogAlreadyCorrect(h)
    \/ \E h \in Handlers : Copy(h)
    \/ \E h \in Handlers : LogCopy(h)
    \/ \E h \in Handlers : DeleteObject(h)
    \/ \E h \in Handlers : LogDelete(h)
    \/ \E h \in Handlers : CallFails(h)

\* The mapping table asks for a single layer: the prefix of the object has
\* the policy of key k1 or no policy; the object was uploaded under SSE-S3,
\* under k1 or under k2, and its notification is in the queue.
InitFeedback ==
    /\ InitRemediation
    /\ \A k \in DOMAIN mapping : ~mapping[k].dual_layer_encryption

SpecFeedback == InitFeedback /\ [][NextFeedback]_vars

\* The handler that has notification e, if one has.
Holder(e) == {h \in Handlers : hs[h].msg = e}

\* The steps the processing of notification e can still take: its receipt,
\* the get, the copy, the copy's entry, the delete, the delete's entry and the
\* return of lambda_handler.
Rank(e) ==
    IF Holder(e) = {}
    THEN IF notifications[e].state = "visible" /\ notifications[e].receives = 0 THEN 7 ELSE 0
    ELSE LET pc == hs[CHOOSE h \in Holder(e) : TRUE].pc
         IN  CASE pc = "get_object" -> 6
               [] pc = "copy" -> 5
               [] pc = "log_copy" -> 4
               [] pc = "delete_object" -> 3
               [] pc \in {"log_delete", "log_not_configured", "log_already_correct"} -> 2
               [] OTHER -> 1

\* The processing of notification e, with r steps left, can still make a
\* copy: a handler is about to copy for it, or it has not got its object yet
\* and the object it would get is not encrypted as the policy asks.
MayCopy(e, r) ==
    /\ r >= 5
    /\ MatchingPrefixes(Bucket, ObjectKey) # {}
    /\ \/ r = 5
       \/ /\ VersionOf(e) \in DOMAIN objects
          /\ ~Compliant(VersionOf(e))

\* The weight of notification e in the measure of the work left.
Weight(e) == LET r == Rank(e) IN IF MayCopy(e, r) THEN 100 + r ELSE r

\* A measure of the work left: the uploads to come, then the notifications
\* whose processing can still make a copy, then the steps left of all
\* notifications.
Variant ==
    LET sum[i \in 0..Len(notifications)] == IF i = 0 THEN 0 ELSE sum[i - 1] + Weight(i)
    IN  (2 - uploads) * 10000 + sum[Len(notifications)]

\* The handlers that process the notification of a copy.
OnCopyNotification ==
    {h \in Handlers : hs[h].msg # NoMsg /\ notifications[hs[h].msg].by = "copy"}

\* C34: remediation does not feed itself.  A handler that processes the
\* notification of a copy makes no copy and ends with the one entry of action
\* None, unless in a non-versioned bucket it got an object uploaded after
\* that copy; the copies made never exceed the uploads in a versioned bucket
\* and 2 * uploads - 1 in a non-versioned one; the queue never takes as many
\* notifications as MaxNotifications; and every step of the system lowers
\* Variant, which is never negative, so processing stops.
C34_RemediationStops ==
    /\ [](\A h \in OnCopyNotification :
            /\ (hs[h].pc = "copy" \/ HasOp(h, "copy")) => ~versioned /\ uploads = 2
            /\ hs[h].pc = "copy" => hs[h].current_sse_type = "AES256"
            /\ (hs[h].pc = "done" /\ ~HasOp(h, "copy")) =>
                  /\ Len(hs[h].calls) = 1
                  /\ hs[h].calls[1].op = "put_item"
                  /\ hs[h].calls[1].action_taken = ActionNone)
    /\ [](/\ versioned => created - uploads <= uploads
          /\ created - uploads <= 2 * uploads - 1
          /\ Len(notifications) < MaxNotifications
          /\ Variant >= 0)
    /\ [][Variant' < Variant]_vars

\* Processing has stopped after a rewrite: the copy's notification was
\* processed with one entry of action None and deleted from the queue, no
\* handler runs and no notification is left to receive.
C34_Witness ==
    /\ created - uploads >= 1
    /\ \A h \in Handlers : hs[h].pc \in {"idle", "done", "failed"} /\ hs[h].msg = NoMsg
    /\ \A e \in DOMAIN notifications : Rank(e) = 0
    /\ \E e \in DOMAIN notifications :
          notifications[e].by = "copy" /\ notifications[e].state = "deleted"
    /\ \E k \in EntriesOf(ActionNone) : log[k].action_reason = ReasonAlreadyCorrect

\* ----------------------------------------- claims on concurrent handlers
\* Two notifications about the object were delivered, one to each handler,
\* both invocations have ended, no call failed on its own, the object was not
\* uploaded again and its prefix has a policy.
BothEnded ==
    /\ deliveries = 2 /\ uploads = 1
    /\ MatchingPrefixes(Bucket, ObjectKey) # {}
    /\ \A h \in Handlers : hs[h].pc \in {"done", "failed"} /\ hs[h].error # "call failed"

\* C35: two handlers process notifications for the same object with no
\* locking, their calls interleaved in every way.  While they run, some
\* version holds the object's content; when both have ended, every version
\* left has that content and the encryption the policy asks for, and at least
\* one of the two handlers has ended without an exception.
C35_ConcurrentHandlersConverge ==
    /\ (uploads = 1 /\ deliveries <= 2) => Holding(1) # {}
    /\ BothEnded =>
          /\ \A v \in DOMAIN objects : objects[v].content = 1 /\ Compliant(v)
          /\ \E h \in Handlers : hs[h].pc = "done"

\* Both handlers got version 1 before either deleted it, both copied it and
\* both have ended without an exception: the two copies are left.
C35_Witness ==
    /\ BothEnded
    /\ \A h \in Handlers :
          /\ hs[h].pc = "done" /\ hs[h].version_id = 1
          /\ HasOp(h, "copy") /\ HasOp(h, "delete_object")
    /\ DOMAIN objects = {2, 3}

\* --------------------------------- the resolver during a reconciliation
\* One invocation of the custom resource, and a call of
\* get_kms_key_info_for_s3_prefix for an object of its bucket at any moment
\* before, during or after it: the query reads the table as it is between two
\* writes of the invocation.

\* The provider invokes on_event once.
FirstEvent == recon.n = 0 /\ \E e \in ReconEvents : OnEvent(e)

NextResolving ==
    \/ FirstEvent
    \/ InsertItem
    \/ UpdateItem
    \/ Query
    \/ DeleteItems
    \/ CallRaises
    \/ ReturnId
    \/ \E o \in ObjectNames : Resolve(ReconBucket, o)

SpecResolving == InitReconcile /\ [][NextResolving]_vars

\* The prefixes of the bucket that are in the records the Update found and in
\* its MappingData.
Kept ==
    TablePrefixes(recon.before, recon.event.bucket_name)
        \cap DocPrefixes(recon.event.mapping_data)

\* C36: on_update applies its upserts before its deletes, and at every point
\* of it, also when a call fails, a prefix that is in the old records and in
\* MappingData has a record in the table; a call of the resolver made at any
\* point for an object name that starts with such a prefix returns a policy,
\* never 'none configured'.
C36_KeptPrefixAlwaysResolves ==
    (recon.n >= 1 /\ recon.event.RequestType = "Update") =>
        /\ \A i, j \in DOMAIN recon.writes :
              (recon.writes[i].op = "update" /\ recon.writes[j].op = "delete") => i < j
        /\ Kept \subseteq TablePrefixes(mapping, recon.event.bucket_name)
        /\ (/\ resolved # NoCall
            /\ \E p \in Kept : StartsWith(resolved.object_name, p)) =>
                resolved.result # NoKeyInfo

\* The resolver was called after the upserts and before the deletes of an
\* Update that keeps one prefix and removes another, for an object under the
\* kept prefix, and returned the updated policy.
C36_Witness ==
    /\ recon.n >= 1 /\ recon.event.RequestType = "Update"
    /\ recon.pc = "delete"
    /\ recon.writes # <<>>
    /\ Kept # {}
    /\ TablePrefixes(recon.before, recon.event.bucket_name) \ Kept # {}
    /\ resolved # NoCall
    /\ \E p \in Kept :
          /\ StartsWith(resolved.object_name, p)
          /\ resolved.result.kms_key_arn = mapping[<<ReconBucket, p>>].kms_key_arn
          /\ mapping[<<ReconBucket, p>>] # recon.before[<<ReconBucket, p>>]

\* ------------------------------------------ the same Update a second time
\* One invocation of the custom resource and, when it was an Update that
\* returned, a second Update with the same MappingData (a redeployment
\* retried by the provider); waiting keeps the first invocation as it ended.

\* The provider invokes on_event again with the event of the Update that
\* returned.
Again ==
    /\ recon.pc = "idle" /\ recon.n = 1
    /\ recon.status = "SUCCESS" /\ recon.event.RequestType = "Update"
    /\ recon' = Invoked(recon.event)
    /\ waiting' = recon
    /\ UNCHANGED <<mapping, resolved, remediationVars, batch, queue>>

NextTwice ==
    \/ FirstEvent
    \/ Again
    \/ InsertItem
    \/ UpdateItem
    \/ Query
    \/ DeleteItems
    \/ CallRaises
    \/ ReturnId

SpecTwice == InitReconcile /\ [][NextTwice]_vars

\* The second Update has begun.
SecondUpdate == DOMAIN waiting # {}

\* C37: on_update is idempotent.  At every point of a second Update with the
\* MappingData of a first one that returned, no write and no delete has been
\* applied and the table is as the first Update left it, insert_ts and
\* last_update_ts of every record included; the second Update ends in
\* success unless a call fails on DynamoDB's side.
C37_SecondUpdateIsNoop ==
    SecondUpdate =>
        /\ recon.event = waiting.event
        /\ recon.writes = <<>>
        /\ mapping = recon.before
        /\ (recon.pc = "idle" /\ "ClientError" \notin Raised) =>
              recon.status = "SUCCESS" /\ recon.response = waiting.response

\* The first Update changed a record and removed another; the second one,
\* with the same MappingData, has returned: its update_item was refused by
\* the condition and its delete loop found nothing to delete.
C37_Witness ==
    /\ SecondUpdate
    /\ recon.pc = "idle" /\ recon.status = "SUCCESS"
    /\ CheckFailures >= 1
    /\ \E i, j \in DOMAIN waiting.writes :
          waiting.writes[i].op = "update" /\ waiting.writes[j].op = "delete"
    /\ mapping # waiting.before

\* ----------------------------------------- claims on the failure list
\* C38: in the batchItemFailures of a response no messageId is listed twice,
\* also when several records of one message fail.
C38_FailureListedOnce ==
    (batch.pc = "returned" /\ "batchItemFailures" \in DOMAIN batch.response) =>
        \A k1, k2 \in DOMAIN batch.response.batchItemFailures :
            batch.response.batchItemFailures[k1].itemIdentifier
                = batch.response.batchItemFailures[k2].itemIdentifier
            => k1 = k2

====
